---- MODULE Spec2Model ----
(***************************************************************************)
(* Model of the Wb-review synchronisation and reply pipeline:              *)
(*   src/main.py      the polling loop, poll_wb, poll_ym, process_ai       *)
(*   src/app/sync.py  sync_wb_account and its own process_ai               *)
(*   src/app/db.py    the store statements                                 *)
(*   src/app/web.py   the admin actions that write the store               *)
(*                                                                         *)
(* Conventions.  SQL NULL / Python None is NULL for text values and 0 for  *)
(* integer and timestamp values.  A timestamp is the value of the clock    *)
(* `now`, which advances when the polling loop sleeps (CURRENT_TIMESTAMP   *)
(* has a resolution of one second, the sleep lasts poll_interval_sec).     *)
(* created_at and account_name are represented by their rank in the        *)
(* store's collation order (NULL first).                                   *)
(***************************************************************************)
EXTENDS Integers, Sequences, FiniteSets, TLC

VARIABLES
    feedbacks,          \* table feedbacks: sequence of rows, id = position
    accounts,           \* table marketplace_accounts (joined with marketplaces)
    prompt_setting,     \* settings row 'prompt_template' (NULL when absent)
    openai_api_key,     \* settings.openai_api_key of the polling process
    now,                \* CURRENT_TIMESTAMP
    market,             \* the items each marketplace can return, by marketplace_id
    pc,                 \* position of the polling process
    impl,               \* which implementation runs the cycle: "main" or "sync"
    todo,               \* account rows of this pass not yet polled
    acct,               \* account_row of the running cycle
    items,              \* fetched items not yet upserted
    rows,               \* rows of get_new_feedbacks not yet processed
    mode,               \* local `mode` of process_ai for the current row
    answer,             \* local `answer` of process_ai
    sent_payload,       \* local `sent_payload` of process_ai
    apc,                \* position of the admin request send_feedback
    afb,                \* local `feedback` of send_feedback (id, external_id)
    atext,              \* local `text` of send_feedback
    listed,             \* history: account ids listed by the running pass
    polled,             \* history: account ids whose cycle was started in this pass
    failed,             \* history: account ids whose latest cycle raised
    fetch_failed,       \* history: account ids whose fetch raised in this pass
    touched,            \* history: feedback ids written by an admin action
    ingest,             \* history, per feedback id: the data of the call that
                        \* inserted the row, of the latest call for it, and its time
    trail,              \* history, per feedback id: what process_ai did with the row
    unprocessed,        \* history: ids read by get_new_feedbacks and not yet handled
    fn_in,              \* input of a pure function under test
    fn_out              \* its result

storeVars == <<feedbacks, accounts, prompt_setting>>
envVars   == <<openai_api_key, now, market>>
pollVars  == <<pc, impl, todo, acct, items, rows, mode, answer, sent_payload>>
adminVars == <<apc, afb, atext>>
passVars  == <<listed, polled, failed, fetch_failed>>
rowHist   == <<touched, ingest, trail, unprocessed>>
histVars  == <<listed, polled, failed, fetch_failed, touched, ingest, trail,
               unprocessed>>
fnVars    == <<fn_in, fn_out>>
vars == <<feedbacks, accounts, prompt_setting, openai_api_key, now, market, pc, impl,
          todo, acct, items, rows, mode, answer, sent_payload, apc, afb, atext,
          listed, polled, failed, fetch_failed, touched, ingest, trail,
          unprocessed, fn_in, fn_out>>

----------------------------------------------------------------------------
(* Bounds *)

MaxNow == 2          \* the loop sleeps until the clock reaches MaxNow
MaxFetch == 2        \* a fetch returns at most MaxFetch items

----------------------------------------------------------------------------
(* Values *)

NULL == "NULL"

NoRating == [k |-> "none", v |-> 0]
IntRating(n) == [k |-> "int", v |-> n]
TextRating == [k |-> "text", v |-> 0]
InfRating == [k |-> "inf", v |-> 0]

\* settings.prompt_template and settings.openai_model of src/app/config.py
DefaultPrompt == "default_template"
OpenAiModel == "gpt-4o-mini"

NoAccount == [id |-> 0, marketplace_id |-> 0, marketplace_type |-> NULL,
              account_name |-> 0, business_id |-> 0, is_active |-> 0,
              auto_reply_enabled |-> 0]

\* The marketplace_accounts rows present when the polling process starts.
InitialAccounts ==
    << [id |-> 1, marketplace_id |-> 1, marketplace_type |-> "wb",
        account_name |-> 1, business_id |-> 0, is_active |-> 1,
        auto_reply_enabled |-> 1],
       [id |-> 2, marketplace_id |-> 2, marketplace_type |-> "ym",
        account_name |-> 1, business_id |-> 0, is_active |-> 1,
        auto_reply_enabled |-> 1] >>

\* FeedbackItem values the marketplace adapters can return (src/app/marketplaces).
FeedbackItem(ext, created, rating, text, pros, cons, pname, nm, raw) ==
    [external_id |-> ext, created_at |-> created, rating |-> rating, text |-> text,
     pros |-> pros, cons |-> cons, product_name |-> pname, product_nm_id |-> nm,
     raw_json |-> raw]

WbItems ==
    { FeedbackItem("e1", 1, IntRating(5), "good", "p1", "", "prodA", 101, "rawA"),
      FeedbackItem("e1", 3, IntRating(1), "bad", "", "c1", "prodB", 102, "rawB"),
      FeedbackItem("e2", 2, IntRating(2), "so-so", "", "", "prodA", 101, "rawC") }

AdminWbItems ==
    { FeedbackItem("e1", 1, IntRating(5), "good", "p1", "", "prodA", 101, "rawA") }

\* WB items whose rating is absent, not a number, zero, and one of five stars
SkipWbItems ==
    { FeedbackItem("e1", 1, NoRating, "t1", "", "", "prodA", 101, "rawA"),
      FeedbackItem("e2", 2, TextRating, "t2", "", "", "prodA", 101, "rawB"),
      FeedbackItem("e3", 3, IntRating(0), "t3", "", "", "prodB", 102, "rawC"),
      FeedbackItem("e4", 4, IntRating(5), "t4", "", "", "prodB", 102, "rawD") }

YmItems ==
    { FeedbackItem("e1", 0, NoRating, "", "", "", "offer1", 0, "{}") }

NoFeedback == [id |-> 0, marketplace_id |-> 0, external_id |-> NULL]

SeqsUpTo(S, n) == UNION { [1..k -> S] : k \in 0..n }

----------------------------------------------------------------------------
(* src/main.py: _reply_mode (the same function is in src/app/sync.py) *)

\* int(rating) returns the value of an integer, raises ValueError for a
\* non-numeric text (caught, line 64) and OverflowError for an infinite float
\* (an ArithmeticError, not caught): the result "OverflowError" stands for
\* _reply_mode raising it.
\* variant: _reply_mode that never answers skip
_reply_mode_NoSkip(rating) ==
    IF rating.k = "int" /\ rating.v >= 4 THEN "auto_send" ELSE "manual_confirm"

_reply_mode(rating) ==
    IF rating.k = "none" THEN "skip"
    ELSE IF rating.k = "inf" THEN "OverflowError"
    ELSE IF rating.k # "int" THEN "skip"
    ELSE IF rating.v >= 4 THEN "auto_send"
    ELSE IF rating.v >= 1 THEN "manual_confirm"
    ELSE "skip"

----------------------------------------------------------------------------
(* src/app/db.py: the store statements, as functions of the table *)

\* json.dumps(x or {})
json_dumps(x) == IF x = NULL \/ x = "{}" THEN <<"json", "{}">> ELSE <<"json", x>>

HasFeedback(fb, mp, ext) ==
    \E i \in 1..Len(fb) : fb[i].marketplace_id = mp /\ fb[i].external_id = ext

NewRow(fb, data, t) ==
    [id |-> Len(fb) + 1,
     marketplace_id |-> data.marketplace_id,
     external_id |-> data.external_id,
     created_at |-> data.created_at,
     rating |-> data.rating,
     text |-> data.text,
     pros |-> data.pros,
     cons |-> data.cons,
     product_name |-> data.product_name,
     product_nm_id |-> data.product_nm_id,
     status |-> data.status,
     raw_json |-> json_dumps(data.raw_json),
     ai_response |-> NULL,
     ai_model |-> NULL,
     ai_prompt |-> NULL,
     ai_created_at |-> 0,
     draft_response |-> NULL,
     sent_response |-> NULL,
     sent_at |-> 0,
     sent_raw |-> NULL,
     last_seen_at |-> t]

\* variant: a plain INSERT, without the ON CONFLICT clause and the UNIQUE index
insert_or_touch_feedback_AlwaysInsert(fb, data, t) ==
    Append(fb, NewRow(fb, data, t))

\* variant: ON CONFLICT DO UPDATE SET every column = excluded.column (the
\* statement of upsert_rag_example), status kept
insert_or_touch_feedback_Overwrite(fb, data, t) ==
    IF HasFeedback(fb, data.marketplace_id, data.external_id)
    THEN [i \in 1..Len(fb) |->
            IF fb[i].marketplace_id = data.marketplace_id
               /\ fb[i].external_id = data.external_id
            THEN [fb[i] EXCEPT !.created_at = data.created_at,
                               !.rating = data.rating,
                               !.text = data.text,
                               !.pros = data.pros,
                               !.cons = data.cons,
                               !.product_name = data.product_name,
                               !.product_nm_id = data.product_nm_id,
                               !.raw_json = json_dumps(data.raw_json),
                               !.last_seen_at = t]
            ELSE fb[i]]
    ELSE Append(fb, NewRow(fb, data, t))

\* variant: ON CONFLICT DO UPDATE SET status = excluded.status as well
insert_or_touch_feedback_ResetStatus(fb, data, t) ==
    IF HasFeedback(fb, data.marketplace_id, data.external_id)
    THEN [i \in 1..Len(fb) |->
            IF fb[i].marketplace_id = data.marketplace_id
               /\ fb[i].external_id = data.external_id
            THEN [fb[i] EXCEPT !.last_seen_at = t, !.status = data.status]
            ELSE fb[i]]
    ELSE Append(fb, NewRow(fb, data, t))

insert_or_touch_feedback(fb, data, t) ==
    IF HasFeedback(fb, data.marketplace_id, data.external_id)
    THEN [i \in 1..Len(fb) |->
            IF fb[i].marketplace_id = data.marketplace_id
               /\ fb[i].external_id = data.external_id
            THEN [fb[i] EXCEPT !.last_seen_at = t]
            ELSE fb[i]]
    ELSE Append(fb, NewRow(fb, data, t))

\* variant: the UPDATE of update_ai_response without "status = 'ai_generated'"
update_ai_response_KeepStatus(fb, feedback_id, response, model, prompt, t) ==
    [i \in 1..Len(fb) |->
        IF fb[i].id = feedback_id
        THEN [fb[i] EXCEPT !.ai_response = response, !.ai_model = model,
                           !.ai_prompt = prompt, !.ai_created_at = t]
        ELSE fb[i]]

\* variant: update_ai_response that stores the model and the prompt but
\* neither the answer nor the status, the draft is recorded after the send
update_ai_response_NoDraft(fb, feedback_id, response, model, prompt, t) ==
    [i \in 1..Len(fb) |->
        IF fb[i].id = feedback_id
        THEN [fb[i] EXCEPT !.ai_model = model, !.ai_prompt = prompt,
                           !.ai_created_at = t]
        ELSE fb[i]]

update_ai_response(fb, feedback_id, response, model, prompt, t) ==
    [i \in 1..Len(fb) |->
        IF fb[i].id = feedback_id
        THEN [fb[i] EXCEPT !.ai_response = response, !.ai_model = model,
                           !.ai_prompt = prompt, !.ai_created_at = t,
                           !.status = "ai_generated"]
        ELSE fb[i]]

\* variant: mark_skipped that writes nothing
mark_skipped_Noop(fb, feedback_id, status) == fb

mark_skipped(fb, feedback_id, status) ==
    [i \in 1..Len(fb) |->
        IF fb[i].id = feedback_id THEN [fb[i] EXCEPT !.status = status] ELSE fb[i]]

\* variant: UPDATE ... WHERE id = ? AND status = 'ai_generated'
mark_sent_OnlyDrafted(fb, feedback_id, response_text, raw_payload, t) ==
    [i \in 1..Len(fb) |->
        IF fb[i].id = feedback_id /\ fb[i].status = "ai_generated"
        THEN [fb[i] EXCEPT !.status = "sent", !.sent_response = response_text,
                           !.sent_raw = json_dumps(raw_payload), !.sent_at = t]
        ELSE fb[i]]

\* variant: UPDATE feedbacks SET status = 'sent' WHERE id = ?
mark_sent_StatusOnly(fb, feedback_id, response_text, raw_payload, t) ==
    [i \in 1..Len(fb) |->
        IF fb[i].id = feedback_id THEN [fb[i] EXCEPT !.status = "sent"] ELSE fb[i]]

mark_sent(fb, feedback_id, response_text, raw_payload, t) ==
    [i \in 1..Len(fb) |->
        IF fb[i].id = feedback_id
        THEN [fb[i] EXCEPT !.status = "sent", !.sent_response = response_text,
                           !.sent_raw = json_dumps(raw_payload), !.sent_at = t]
        ELSE fb[i]]

\* variant: UPDATE feedbacks SET draft_response = ?, status = 'new'
update_draft_response_Reopen(fb, feedback_id, text) ==
    [i \in 1..Len(fb) |->
        IF fb[i].id = feedback_id
        THEN [fb[i] EXCEPT !.draft_response = text, !.status = "new"]
        ELSE fb[i]]

update_draft_response(fb, feedback_id, text) ==
    [i \in 1..Len(fb) |->
        IF fb[i].id = feedback_id THEN [fb[i] EXCEPT !.draft_response = text]
        ELSE fb[i]]

\* variant: WHERE status IN ('new', 'ai_generated'), drafts are retried
get_new_feedbacks_Retry(fb, mp) ==
    LET ids == { i \in 1..Len(fb) : /\ fb[i].marketplace_id = mp
                                    /\ fb[i].status \in {"new", "ai_generated"} }
        n == Cardinality(ids)
    IN { [k \in 1..n |-> fb[p[k]]] :
           p \in { q \in [1..n -> ids] :
                     /\ \A a, b \in 1..n : a # b => q[a] # q[b]
                     /\ \A a, b \in 1..n :
                          a < b => fb[q[a]].created_at <= fb[q[b]].created_at } }

\* variant: the SELECT of get_new_feedbacks without ORDER BY
get_new_feedbacks_Unordered(fb, mp) ==
    LET ids == { i \in 1..Len(fb) : fb[i].marketplace_id = mp /\ fb[i].status = "new" }
        n == Cardinality(ids)
    IN { [k \in 1..n |-> fb[p[k]]] :
           p \in { q \in [1..n -> ids] : \A a, b \in 1..n : a # b => q[a] # q[b] } }

\* variant: WHERE status = 'new', the rows of every marketplace
get_new_feedbacks_AnyMarketplace(fb, mp) ==
    LET ids == { i \in 1..Len(fb) : fb[i].status = "new" }
        n == Cardinality(ids)
    IN { [k \in 1..n |-> fb[p[k]]] :
           p \in { q \in [1..n -> ids] :
                     /\ \A a, b \in 1..n : a # b => q[a] # q[b]
                     /\ \A a, b \in 1..n :
                          a < b => fb[q[a]].created_at <= fb[q[b]].created_at } }

\* SELECT * FROM feedbacks WHERE marketplace_id = ? AND status = 'new'
\* ORDER BY created_at ASC: every order of the rows that is ascending in
\* created_at (SQL leaves the order of equal keys open).
get_new_feedbacks(fb, mp) ==
    LET ids == { i \in 1..Len(fb) : fb[i].marketplace_id = mp /\ fb[i].status = "new" }
        n == Cardinality(ids)
    IN { [k \in 1..n |-> fb[p[k]]] :
           p \in { q \in [1..n -> ids] :
                     /\ \A a, b \in 1..n : a # b => q[a] # q[b]
                     /\ \A a, b \in 1..n :
                          a < b => fb[q[a]].created_at <= fb[q[b]].created_at } }

\* SELECT * FROM feedbacks WHERE id = ?  (NoFeedback: no row, None)
get_feedback(fb, feedback_id) ==
    IF feedback_id \in 1..Len(fb) THEN fb[feedback_id] ELSE NoFeedback

\* ORDER BY a.marketplace_type, a.account_name, a.id with one marketplace_type
RECURSIVE SortAccounts(_)
SortAccounts(S) ==
    IF S = {} THEN <<>>
    ELSE LET first == CHOOSE a \in S : \A b \in S :
                         \/ a.account_name < b.account_name
                         \/ a.account_name = b.account_name /\ a.id <= b.id
         IN <<first>> \o SortAccounts(S \ {first})

list_marketplace_accounts(acc, marketplace_type, active_only) ==
    SortAccounts({ acc[i] : i \in { j \in 1..Len(acc) :
                       /\ (active_only => acc[j].is_active = 1)
                       /\ acc[j].marketplace_type = marketplace_type } })

get_marketplace_account_by_marketplace_id(acc, mp) ==
    IF \E i \in 1..Len(acc) : acc[i].marketplace_id = mp
    THEN acc[CHOOSE i \in 1..Len(acc) : acc[i].marketplace_id = mp]
    ELSE NoAccount

set_marketplace_account_business_id(acc, account_id, business_id) ==
    [i \in 1..Len(acc) |->
        IF acc[i].id = account_id THEN [acc[i] EXCEPT !.business_id = business_id]
        ELSE acc[i]]

\* variant: DELETE FROM marketplace_accounts WHERE id = ?
deactivate_marketplace_account_Delete(acc, account_id) ==
    SelectSeq(acc, LAMBDA a : a.id # account_id)

deactivate_marketplace_account(acc, account_id) ==
    [i \in 1..Len(acc) |->
        IF acc[i].id = account_id THEN [acc[i] EXCEPT !.is_active = 0] ELSE acc[i]]

set_marketplace_account_auto_reply(acc, account_id, enabled) ==
    [i \in 1..Len(acc) |->
        IF acc[i].id = account_id
        THEN [acc[i] EXCEPT !.auto_reply_enabled = IF enabled THEN 1 ELSE 0]
        ELSE acc[i]]

\* INSERT INTO marketplaces, INSERT INTO marketplace_accounts: both ids are
\* AUTOINCREMENT and no statement deletes a row of either table, the new
\* row takes the next id; is_active and auto_reply_enabled default to 1.
create_marketplace_account(acc, marketplace_type, account_name, business_id) ==
    Append(acc, [id |-> Len(acc) + 1, marketplace_id |-> Len(acc) + 1,
                 marketplace_type |-> marketplace_type,
                 account_name |-> account_name, business_id |-> business_id,
                 is_active |-> 1, auto_reply_enabled |-> 1])

\* rag_examples rows: product_name NULL or a text, rating NoRating or an
\* integer, feedback_created_at by rank (0: NULL)
RagExample(id, product_name, rating, feedback_created_at) ==
    [id |-> id, product_name |-> product_name, rating |-> rating,
     feedback_created_at |-> feedback_created_at]

\* CASE WHEN product_name = ? THEN 1 ELSE 0 END (a comparison with NULL is
\* not true)
ProductKey(e, product_name) ==
    IF e.product_name # NULL /\ product_name # NULL /\ e.product_name = product_name
    THEN 1 ELSE 0

\* CASE WHEN rating = ? THEN 1 ELSE 0 END
RatingKey(e, rating) ==
    IF e.rating.k = "int" /\ rating.k = "int" /\ e.rating.v = rating.v THEN 1 ELSE 0

\* variant: ORDER BY ..., feedback_created_at DESC, id ASC
RagBefore_FirstInserted(a, b, product_name, rating) ==
    LET pa == ProductKey(a, product_name)
        pb == ProductKey(b, product_name)
        ra == RatingKey(a, rating)
        rb == RatingKey(b, rating)
    IN \/ pa > pb
       \/ pa = pb /\ ra > rb
       \/ pa = pb /\ ra = rb /\ a.feedback_created_at > b.feedback_created_at
       \/ pa = pb /\ ra = rb /\ a.feedback_created_at = b.feedback_created_at
          /\ a.id < b.id

\* ORDER BY <product key> DESC, <rating key> DESC, feedback_created_at DESC,
\* id DESC: row a comes before row b
RagBefore(a, b, product_name, rating) ==
    LET pa == ProductKey(a, product_name)
        pb == ProductKey(b, product_name)
        ra == RatingKey(a, rating)
        rb == RatingKey(b, rating)
    IN \/ pa > pb
       \/ pa = pb /\ ra > rb
       \/ pa = pb /\ ra = rb /\ a.feedback_created_at > b.feedback_created_at
       \/ pa = pb /\ ra = rb /\ a.feedback_created_at = b.feedback_created_at
          /\ a.id > b.id

\* ORDER BY feedback_created_at DESC, id DESC
RecentBefore(a, b, product_name, rating) ==
    \/ a.feedback_created_at > b.feedback_created_at
    \/ a.feedback_created_at = b.feedback_created_at /\ a.id > b.id

RECURSIVE RagSelect(_, _, _, _)
RagSelect(S, product_name, rating, limit) ==
    IF S = {} \/ limit <= 0 THEN <<>>
    ELSE LET first == CHOOSE a \in S :
                         \A b \in S \ {a} : RagBefore(a, b, product_name, rating)
         IN <<first>> \o RagSelect(S \ {first}, product_name, rating, limit - 1)

RECURSIVE RecentSelect(_, _, _, _)
RecentSelect(S, product_name, rating, limit) ==
    IF S = {} \/ limit <= 0 THEN <<>>
    ELSE LET first == CHOOSE a \in S :
                         \A b \in S \ {a} : RecentBefore(a, b, product_name, rating)
         IN <<first>> \o RecentSelect(S \ {first}, product_name, rating, limit - 1)

\* variant: the ORDER BY of list_rag_examples, recency only
get_rag_examples_ByRecency(examples, product_name, rating, limit) ==
    RecentSelect({ examples[i] : i \in 1..Len(examples) }, product_name, rating, limit)

get_rag_examples(examples, product_name, rating, limit) ==
    RagSelect({ examples[i] : i \in 1..Len(examples) }, product_name, rating, limit)

----------------------------------------------------------------------------
(* src/main.py: helpers of the polling loop *)

PyInt(n) == [k |-> "int", v |-> n]
PyNone == [k |-> "none", v |-> 0]
PyText == [k |-> "text", v |-> 0]
PyAbsent == [k |-> "absent", v |-> 0]
\* a REAL, in tenths: PyFloat(5) is 0.5
PyFloat(tenths) == [k |-> "float", v |-> tenths]

\* poll_wb / poll_ym / sync_wb_account: auto_reply_raw = _row_value(account_row,
\* "auto_reply_enabled", 1); int(auto_reply_raw) == 1, True when int() raises
resolve_auto_reply(raw) ==
    IF raw.k = "absent" THEN TRUE              \* the default 1
    ELSE IF raw.k = "float" THEN raw.v \div 10 = 1   \* int() truncates
    ELSE IF raw.k # "int" THEN TRUE            \* TypeError, ValueError
    ELSE raw.v = 1

\* variant: process_ai without lines 99-100
effective_mode_NoDowngrade(rating, auto_reply_enabled) == _reply_mode(rating)

\* process_ai: the mode after the downgrade of auto_send
effective_mode(rating, auto_reply_enabled) ==
    LET m == _reply_mode(rating)
    IN IF m = "auto_send" /\ ~auto_reply_enabled THEN "manual_confirm" ELSE m

\* variant: ensure_prompt that writes the default only when nothing is stored
ensure_prompt_KeepStored(existing, default_prompt) ==
    IF existing # NULL
    THEN [template |-> existing, setting |-> existing, written |-> FALSE]
    ELSE [template |-> default_prompt, setting |-> default_prompt, written |-> TRUE]

\* ensure_prompt: the template process_ai uses, and the stored setting after it
ensure_prompt(existing, default_prompt) ==
    IF existing = default_prompt
    THEN [template |-> existing, setting |-> existing, written |-> FALSE]
    ELSE [template |-> default_prompt, setting |-> default_prompt, written |-> TRUE]

\* build_prompt(prompt_template, payload, examples): the payload fields taken
\* from the row
build_prompt(template, row) ==
    <<template, row.text, row.rating, row.pros, row.cons, row.product_name>>

\* upsert_feedbacks: the dict handed to insert_or_touch_feedback
upsert_data(marketplace_id, item) ==
    [marketplace_id |-> marketplace_id,
     external_id |-> item.external_id,
     created_at |-> item.created_at,
     rating |-> item.rating,
     text |-> item.text,
     pros |-> item.pros,
     cons |-> item.cons,
     product_name |-> item.product_name,
     product_nm_id |-> item.product_nm_id,
     status |-> "new",
     raw_json |-> item.raw_json]

DetectedBusinessId == 77
GeneratedAnswer == "ai_text"
SendAck == "ack"

AccountIds(s) == { s[i].id : i \in 1..Len(s) }

\* poll_wb starts with the fetch; poll_ym with _get_business_id, which calls
\* detect_business_id only when the account row holds no business_id
\* variant: _get_business_id without lines 173-174, discovery in every cycle
StartPc_AlwaysDetect(a) ==
    IF a.marketplace_type = "ym" THEN "detect" ELSE "fetch"

StartPc(a) ==
    IF a.marketplace_type = "ym" /\ a.business_id = 0 THEN "detect" ELSE "fetch"

\* what the histories hold for a row nothing has happened to
NoTrail == [mode |-> NULL, auto |-> FALSE, gen |-> "none", send |-> "none",
            by |-> NULL, auto_marked |-> FALSE, admin_marked |-> FALSE,
            last_mark |-> NULL]

RowIds(r) == { r[i].id : i \in 1..Len(r) }

----------------------------------------------------------------------------
(* src/main.py: main, poll_wb, poll_ym, process_ai; src/app/sync.py *)

\* variant: main without the handlers of lines 290-298, an exception of one
\* account ends the pass
EndCycle_Abort(raised) ==
    /\ failed' = IF impl # "main" THEN failed
                 ELSE IF raised THEN failed \cup {acct.id}
                 ELSE failed \ {acct.id}
    /\ items' = <<>>
    /\ rows' = <<>>
    /\ mode' = NULL
    /\ answer' = NULL
    /\ sent_payload' = NULL
    /\ impl' = "main"
    /\ fetch_failed' = IF pc = "fetch" THEN fetch_failed \cup {acct.id}
                       ELSE fetch_failed
    /\ IF todo = <<>> \/ raised
       THEN /\ pc' = "sleep"
            /\ acct' = NoAccount
            /\ todo' = <<>>
            /\ UNCHANGED polled
       ELSE /\ pc' = StartPc(Head(todo))
            /\ acct' = Head(todo)
            /\ todo' = Tail(todo)
            /\ polled' = polled \cup {Head(todo).id}
    /\ UNCHANGED listed

\* The for loops of main: the cycle of acct is over (raised: by an exception
\* caught at line 292 or 297); the next listed account is polled, or the pass
\* ends in time.sleep.  A sync_wb_account call returns to its caller.
EndCycle(raised) ==
    /\ failed' = IF impl # "main" THEN failed
                 ELSE IF raised THEN failed \cup {acct.id}
                 ELSE failed \ {acct.id}
    /\ items' = <<>>
    /\ rows' = <<>>
    /\ mode' = NULL
    /\ answer' = NULL
    /\ sent_payload' = NULL
    /\ impl' = "main"
    /\ fetch_failed' = IF pc = "fetch" THEN fetch_failed \cup {acct.id}
                       ELSE fetch_failed
    /\ IF todo = <<>>
       THEN /\ pc' = "sleep"
            /\ acct' = NoAccount
            /\ UNCHANGED <<todo, polled>>
       ELSE /\ pc' = StartPc(Head(todo))
            /\ acct' = Head(todo)
            /\ todo' = Tail(todo)
            /\ polled' = polled \cup {Head(todo).id}
    /\ UNCHANGED listed

\* The for loop of process_ai moves to the next row, or process_ai returns.
AfterItem ==
    /\ unprocessed' = unprocessed \ {Head(rows).id}
    /\ IF Len(rows) <= 1
       THEN EndCycle(FALSE)
       ELSE /\ pc' = "item"
            /\ rows' = Tail(rows)
            /\ mode' = NULL
            /\ answer' = NULL
            /\ sent_payload' = NULL
            /\ UNCHANGED <<impl, todo, acct, items, passVars>>

\* main, lines 285-286: both listings succeed
ListAccounts ==
    /\ pc = "list"
    /\ LET all == list_marketplace_accounts(accounts, "wb", TRUE)
                  \o list_marketplace_accounts(accounts, "ym", TRUE)
       IN /\ listed' = AccountIds(all)
          /\ fetch_failed' = {}
          /\ IF all = <<>>
             THEN /\ pc' = "sleep"
                  /\ polled' = {}
                  /\ UNCHANGED <<todo, acct>>
             ELSE /\ pc' = StartPc(Head(all))
                  /\ acct' = Head(all)
                  /\ todo' = Tail(all)
                  /\ polled' = {Head(all).id}
    /\ UNCHANGED <<storeVars, envVars, impl, items, rows, mode, answer, sent_payload,
                   adminVars, failed, rowHist, fnVars>>

\* main, lines 285-286: a listing raises (sqlite3.Error); nothing in main
\* catches it and the process ends
ListAccountsError ==
    /\ pc = "list"
    /\ pc' = "dead"
    /\ UNCHANGED <<storeVars, envVars, impl, todo, acct, items, rows, mode, answer,
                   sent_payload, adminVars, histVars, fnVars>>

\* _get_business_id: detect_business_id returns, the id is stored
DetectBusinessId ==
    /\ pc = "detect"
    /\ accounts' = set_marketplace_account_business_id(accounts, acct.id,
                                                       DetectedBusinessId)
    /\ acct' = [acct EXCEPT !.business_id = DetectedBusinessId]
    /\ pc' = "fetch"
    /\ UNCHANGED <<feedbacks, prompt_setting, envVars, impl, todo, items, rows, mode,
                   answer, sent_payload, adminVars, histVars, fnVars>>

\* _get_business_id: detect_business_id raises, poll_ym raises
DetectBusinessIdError ==
    /\ pc = "detect"
    /\ EndCycle(TRUE)
    /\ UNCHANGED <<storeVars, envVars, adminVars, rowHist, fnVars>>

\* fetch_unanswered_with_raw returns
Fetch ==
    /\ pc = "fetch"
    /\ \E s \in SeqsUpTo(market[acct.marketplace_id], MaxFetch) :
         /\ items' = s
         /\ pc' = IF s = <<>> THEN "process" ELSE "upsert"
    /\ UNCHANGED <<storeVars, envVars, impl, todo, acct, rows, mode, answer,
                   sent_payload, adminVars, histVars, fnVars>>

\* variant: the fetch error is swallowed and the cycle goes on with process_ai
FetchError_Continue ==
    /\ pc = "fetch"
    /\ pc' = "process"
    /\ fetch_failed' = fetch_failed \cup {acct.id}
    /\ UNCHANGED <<storeVars, envVars, impl, todo, acct, items, rows, mode, answer,
                   sent_payload, adminVars, listed, polled, failed, rowHist, fnVars>>

\* fetch_unanswered_with_raw raises: poll_wb and sync_wb_account raise,
\* poll_ym catches it (line 192) and returns
FetchError ==
    /\ pc = "fetch"
    /\ EndCycle(impl = "sync" \/ acct.marketplace_type = "wb")
    /\ UNCHANGED <<storeVars, envVars, adminVars, rowHist, fnVars>>

\* upsert_feedbacks: one insert_or_touch_feedback
Upsert ==
    /\ pc = "upsert"
    /\ LET data == upsert_data(acct.marketplace_id, Head(items))
           known == HasFeedback(feedbacks, data.marketplace_id, data.external_id)
       IN /\ feedbacks' = insert_or_touch_feedback(feedbacks, data, now)
          /\ ingest' = IF known
                       THEN [i \in 1..Len(ingest) |->
                               IF ingest[i].first.marketplace_id = data.marketplace_id
                                  /\ ingest[i].first.external_id = data.external_id
                               THEN [ingest[i] EXCEPT !.last = data, !.at = now]
                               ELSE ingest[i]]
                       ELSE Append(ingest, [first |-> data, last |-> data, at |-> now])
          /\ trail' = IF known THEN trail ELSE Append(trail, NoTrail)
    /\ items' = Tail(items)
    /\ pc' = IF Tail(items) = <<>> THEN "save_raw" ELSE "upsert"
    /\ UNCHANGED <<accounts, prompt_setting, envVars, impl, todo, acct, rows, mode,
                   answer, sent_payload, adminVars, passVars, touched, unprocessed,
                   fnVars>>

\* upsert_feedbacks: the statement raises (sqlite3.Error)
UpsertError ==
    /\ pc = "upsert"
    /\ EndCycle(TRUE)
    /\ UNCHANGED <<storeVars, envVars, adminVars, rowHist, fnVars>>

\* the raw payload is written to the last-response file
SaveRaw ==
    /\ pc = "save_raw"
    /\ pc' = "process"
    /\ UNCHANGED <<storeVars, envVars, impl, todo, acct, items, rows, mode, answer,
                   sent_payload, adminVars, histVars, fnVars>>

\* open / json.dump raises (OSError)
SaveRawError ==
    /\ pc = "save_raw"
    /\ EndCycle(TRUE)
    /\ UNCHANGED <<storeVars, envVars, adminVars, rowHist, fnVars>>

\* process_ai, lines 91-92: ensure_prompt, get_new_feedbacks
ProcessStart ==
    /\ pc = "process"
    /\ prompt_setting' = ensure_prompt(prompt_setting, DefaultPrompt).setting
    /\ \E r \in get_new_feedbacks(feedbacks, acct.marketplace_id) :
         /\ unprocessed' = RowIds(r)
         /\ IF r = <<>>
            THEN EndCycle(FALSE)
            ELSE /\ rows' = r
                 /\ pc' = "item"
                 /\ UNCHANGED <<impl, todo, acct, items, mode, answer, sent_payload,
                                passVars>>
    /\ UNCHANGED <<feedbacks, accounts, envVars, adminVars, touched, ingest, trail,
                   fnVars>>

\* variant: process_ai without lines 101-103
key_missing_Never(key) == FALSE

\* process_ai, line 101: not settings.openai_api_key (None or the empty string)
key_missing(key) == key = NULL \/ key = ""

\* process_ai, lines 95-103: the mode of the row, the two skips.  When
\* _reply_mode raises, main.py marks the row ai_error (line 142) and sync.py
\* lets the exception leave process_ai.
Classify ==
    /\ pc = "item"
    /\ LET row == Head(rows)
           enabled == resolve_auto_reply(PyInt(acct.auto_reply_enabled))
           m == effective_mode(row.rating, enabled)
           seen == [trail[row.id] EXCEPT !.auto = enabled, !.by = impl]
       IN IF _reply_mode(row.rating) = "OverflowError"
          THEN /\ trail' = [trail EXCEPT ![row.id] = [seen EXCEPT !.mode = "raised"]]
               /\ IF impl = "main"
                  THEN /\ feedbacks' = mark_skipped(feedbacks, row.id, "ai_error")
                       /\ AfterItem
                  ELSE /\ EndCycle(TRUE)
                       /\ UNCHANGED <<feedbacks, unprocessed>>
          ELSE IF _reply_mode(row.rating) = "skip"
          THEN /\ feedbacks' = mark_skipped(feedbacks, row.id, "manual_needed")
               /\ trail' = [trail EXCEPT ![row.id] = [seen EXCEPT !.mode = "skip"]]
               /\ AfterItem
          ELSE IF key_missing(openai_api_key)
          THEN /\ feedbacks' = mark_skipped(feedbacks, row.id, "ai_skipped_no_key")
               /\ trail' = [trail EXCEPT ![row.id] = [seen EXCEPT !.mode = "no_key"]]
               /\ AfterItem
          ELSE /\ mode' = m
               /\ pc' = "gen"
               /\ trail' = [trail EXCEPT ![row.id] = [seen EXCEPT !.mode = m]]
               /\ UNCHANGED <<feedbacks, impl, todo, acct, items, rows, answer,
                              sent_payload, passVars, unprocessed>>
    /\ UNCHANGED <<accounts, prompt_setting, envVars, adminVars, touched, ingest,
                   fnVars>>

\* process_ai, lines 104-132: the prompt is built, generate_response returns,
\* update_ai_response stores the draft
Generate ==
    /\ pc = "gen"
    /\ LET row == Head(rows)
           template == ensure_prompt(prompt_setting, DefaultPrompt).template
       IN /\ feedbacks' = update_ai_response(feedbacks, row.id, GeneratedAnswer,
                                             OpenAiModel, build_prompt(template, row),
                                             now)
          /\ trail' = [trail EXCEPT ![row.id].gen = "ok"]
    /\ IF mode = "auto_send"
       THEN /\ pc' = "send"
            /\ answer' = GeneratedAnswer
            /\ UNCHANGED <<impl, todo, acct, items, rows, mode, sent_payload, passVars,
                           unprocessed>>
       ELSE AfterItem
    /\ UNCHANGED <<accounts, prompt_setting, envVars, adminVars, touched, ingest,
                   fnVars>>

\* process_ai, lines 104-131: a step of the generation raises.  main.py
\* catches it per row (line 142) and marks the row ai_error; sync.py has no
\* handler, the exception leaves process_ai and sync_wb_account
GenerateError ==
    /\ pc = "gen"
    /\ trail' = [trail EXCEPT ![Head(rows).id].gen = "failed"]
    /\ IF impl = "main"
       THEN /\ feedbacks' = mark_skipped(feedbacks, Head(rows).id, "ai_error")
            /\ AfterItem
       ELSE /\ EndCycle(TRUE)
            /\ UNCHANGED <<feedbacks, unprocessed>>
    /\ UNCHANGED <<accounts, prompt_setting, envVars, adminVars, touched, ingest,
                   fnVars>>

\* process_ai, lines 135-138: send_response returns
Send ==
    /\ pc = "send"
    /\ sent_payload' = SendAck
    /\ pc' = "mark_sent"
    /\ trail' = [trail EXCEPT ![Head(rows).id].send =
                    IF @ = "none" THEN "ok" ELSE "again"]
    /\ UNCHANGED <<storeVars, envVars, impl, todo, acct, items, rows, mode, answer,
                   adminVars, passVars, touched, ingest, unprocessed, fnVars>>

\* variant: process_ai without the inner handler of lines 134-141, the
\* exception of send_response reaches the handler of line 142
SendError_Outer ==
    /\ pc = "send"
    /\ trail' = [trail EXCEPT ![Head(rows).id].send =
                    IF @ = "none" THEN "failed" ELSE "again"]
    /\ feedbacks' = mark_skipped(feedbacks, Head(rows).id, "ai_error")
    /\ AfterItem
    /\ UNCHANGED <<accounts, prompt_setting, envVars, adminVars, touched, ingest,
                   fnVars>>

\* process_ai, lines 135-141: send_response raises, the inner handler prints
SendError ==
    /\ pc = "send"
    /\ trail' = [trail EXCEPT ![Head(rows).id].send =
                    IF @ = "none" THEN "failed" ELSE "again"]
    /\ AfterItem
    /\ UNCHANGED <<storeVars, envVars, adminVars, touched, ingest, fnVars>>

\* process_ai, line 139: mark_sent
MarkSent ==
    /\ pc = "mark_sent"
    /\ feedbacks' = mark_sent(feedbacks, Head(rows).id, answer, sent_payload, now)
    /\ trail' = [trail EXCEPT ![Head(rows).id].auto_marked = TRUE,
                              ![Head(rows).id].last_mark = "auto"]
    /\ AfterItem
    /\ UNCHANGED <<accounts, prompt_setting, envVars, adminVars, touched, ingest,
                   fnVars>>

\* main, line 299: time.sleep(settings.poll_interval_sec), then the next pass
Sleep ==
    /\ pc = "sleep"
    /\ now < MaxNow
    /\ now' = now + 1
    /\ pc' = "list"
    /\ UNCHANGED <<storeVars, openai_api_key, market, impl, todo, acct, items, rows,
                   mode, answer, sent_payload, adminVars, histVars, fnVars>>

\* the polling process is stopped, wherever it stands, and python -m main is
\* run again: main starts with fresh locals on the same database file;
\* init_db creates nothing new and _seed_wb_accounts returns at line 224,
\* the accounts exist. Every statement of db.py commits, so the store is as
\* the last completed statement left it.
Restart ==
    /\ impl = "main"
    /\ pc' = "list"
    /\ todo' = <<>>
    /\ acct' = NoAccount
    /\ items' = <<>>
    /\ rows' = <<>>
    /\ mode' = NULL
    /\ answer' = NULL
    /\ sent_payload' = NULL
    /\ listed' = {}
    /\ polled' = {}
    /\ failed' = {}
    /\ fetch_failed' = {}
    /\ unprocessed' = {}
    /\ UNCHANGED <<storeVars, envVars, impl, adminVars, touched, ingest, trail,
                   fnVars>>

\* account names are kept as numbers (the listing orders by them): 1 is the
\* name of the key "a", 2 is the name given to the key "default"
SeedAccountName(key) ==
    IF key = "default" THEN 2 ELSE 1

RECURSIVE SeedCreate(_, _)
SeedCreate(acc, wb_accounts) ==
    IF wb_accounts = <<>> THEN acc
    ELSE SeedCreate(create_marketplace_account(acc, "wb",
                                               SeedAccountName(Head(wb_accounts)),
                                               0),
                    Tail(wb_accounts))

\* variant: line 222 lists with active_only=True
_seed_wb_accounts_ActiveOnly(acc, wb_accounts) ==
    IF wb_accounts = <<>> THEN acc
    ELSE IF list_marketplace_accounts(acc, "wb", TRUE) # <<>> THEN acc
    ELSE SeedCreate(acc, wb_accounts)

\* _seed_wb_accounts(conn, settings.wb_accounts)
_seed_wb_accounts(acc, wb_accounts) ==
    IF wb_accounts = <<>> THEN acc
    ELSE IF list_marketplace_accounts(acc, "wb", FALSE) # <<>> THEN acc
    ELSE SeedCreate(acc, wb_accounts)

\* main, line 299, in a loop that runs without end: time.sleep returns and
\* the next pass begins; the clock of the model stops at MaxNow
SleepOn ==
    /\ pc = "sleep"
    /\ now' = IF now < MaxNow THEN now + 1 ELSE now
    /\ pc' = "list"
    /\ UNCHANGED <<storeVars, openai_api_key, market, impl, todo, acct, items, rows,
                   mode, answer, sent_payload, adminVars, histVars, fnVars>>

\* sync_wb_account(conn, settings, account_row) is called for a WB account
SyncStart ==
    /\ pc = "sleep"
    /\ \E i \in 1..Len(accounts) :
         /\ accounts[i].marketplace_type = "wb"
         /\ acct' = accounts[i]
    /\ impl' = "sync"
    /\ pc' = "fetch"
    /\ UNCHANGED <<storeVars, envVars, todo, items, rows, mode, answer, sent_payload,
                   adminVars, histVars, fnVars>>

\* the steps of one account's cycle, shared by main.py and sync.py
Cycle ==
    \/ Fetch
    \/ FetchError
    \/ Upsert
    \/ UpsertError
    \/ SaveRaw
    \/ SaveRawError
    \/ ProcessStart
    \/ Classify
    \/ Generate
    \/ GenerateError
    \/ Send
    \/ SendError
    \/ MarkSent

\* one pass of the loop of main
Pass ==
    \/ ListAccounts
    \/ ListAccountsError
    \/ DetectBusinessId
    \/ DetectBusinessIdError
    \/ Cycle

Poller ==
    \/ Pass
    \/ Sleep

----------------------------------------------------------------------------
(* src/app/web.py: the admin requests that write feedbacks and accounts *)

OperatorText == "op_text"

\* the ids a request can name: every stored one and one that does not exist
FeedbackIdArgs == 1..(Len(feedbacks) + 1)
AccountIdArgs == 1..(Len(accounts) + 1)

\* variant: send_feedback without the checks of lines 234-241
send_feedback_allowed_NoAccountCheck(fb, acc, feedback_id, text) ==
    LET feedback == get_feedback(fb, feedback_id)
        account == get_marketplace_account_by_marketplace_id(acc,
                                                             feedback.marketplace_id)
    IN /\ feedback.id # 0
       /\ text # ""
       /\ account.id # 0

\* send_feedback, lines 218-241: the checks before the client is built
send_feedback_allowed(fb, acc, feedback_id, text) ==
    LET feedback == get_feedback(fb, feedback_id)
        account == get_marketplace_account_by_marketplace_id(acc,
                                                             feedback.marketplace_id)
    IN /\ feedback.id # 0
       /\ text # ""
       /\ account.id # 0
       /\ account.is_active = 1
       /\ account.marketplace_type = "wb"

\* save_feedback: update_draft_response without any check
SaveFeedback ==
    /\ \E feedback_id \in FeedbackIdArgs :
         /\ feedbacks' = update_draft_response(feedbacks, feedback_id, OperatorText)
         /\ touched' = IF feedback_id <= Len(feedbacks)
                       THEN touched \cup {feedback_id} ELSE touched
    /\ UNCHANGED <<accounts, prompt_setting, envVars, pollVars, adminVars, passVars,
                   ingest, trail, unprocessed, fnVars>>

\* send_feedback, lines 218-242: the request is read and checked
SendFeedbackStart ==
    /\ apc = "idle"
    /\ \E feedback_id \in FeedbackIdArgs, text \in {"", OperatorText} :
         IF send_feedback_allowed(feedbacks, accounts, feedback_id, text)
         THEN /\ apc' = "send"
              /\ afb' = [id |-> feedback_id,
                         marketplace_id |-> feedbacks[feedback_id].marketplace_id,
                         external_id |-> feedbacks[feedback_id].external_id]
              /\ atext' = text
         ELSE UNCHANGED adminVars
    /\ UNCHANGED <<storeVars, envVars, pollVars, histVars, fnVars>>

\* send_feedback, line 244: send_response returns
SendFeedbackCall ==
    /\ apc = "send"
    /\ apc' = "draft"
    /\ UNCHANGED <<storeVars, envVars, pollVars, afb, atext, histVars, fnVars>>

\* send_feedback, lines 245-248: send_response raises
SendFeedbackCallError ==
    /\ apc = "send"
    /\ apc' = "idle"
    /\ afb' = NoFeedback
    /\ atext' = NULL
    /\ UNCHANGED <<storeVars, envVars, pollVars, histVars, fnVars>>

\* send_feedback, line 249: update_draft_response
SendFeedbackDraft ==
    /\ apc = "draft"
    /\ feedbacks' = update_draft_response(feedbacks, afb.id, atext)
    /\ touched' = touched \cup {afb.id}
    /\ apc' = "mark"
    /\ UNCHANGED <<accounts, prompt_setting, envVars, pollVars, afb, atext, passVars,
                   ingest, trail, unprocessed, fnVars>>

\* send_feedback, line 250: mark_sent
SendFeedbackMark ==
    /\ apc = "mark"
    /\ feedbacks' = mark_sent(feedbacks, afb.id, atext, SendAck, now)
    /\ trail' = [trail EXCEPT ![afb.id].admin_marked = TRUE,
                              ![afb.id].last_mark = "admin"]
    /\ apc' = "idle"
    /\ afb' = NoFeedback
    /\ atext' = NULL
    /\ UNCHANGED <<accounts, prompt_setting, envVars, pollVars, passVars, touched,
                   ingest, unprocessed, fnVars>>

\* delete_account
DeleteAccount ==
    /\ \E account_id \in AccountIdArgs :
         accounts' = deactivate_marketplace_account(accounts, account_id)
    /\ UNCHANGED <<feedbacks, prompt_setting, envVars, pollVars, adminVars, histVars,
                   fnVars>>

\* toggle_auto_reply
ToggleAutoReply ==
    /\ \E account_id \in AccountIdArgs, enabled \in BOOLEAN :
         accounts' = set_marketplace_account_auto_reply(accounts, account_id, enabled)
    /\ UNCHANGED <<feedbacks, prompt_setting, envVars, pollVars, adminVars, histVars,
                   fnVars>>

----------------------------------------------------------------------------
(* one call of a store statement or one admin request run to completion on a
   given store, with what it reports to its caller *)

NoRequest == [request |-> NULL, id |-> 0, text |-> NULL, was |-> NULL]
NoResponse == [category |-> NULL, message |-> NULL, called |-> FALSE]

\* the status of the addressed row before the request (NULL: no such row)
StatusOf(fb, feedback_id) ==
    IF feedback_id \in 1..Len(fb) THEN fb[feedback_id].status ELSE NULL

\* send_feedback, lines 218-241: the flash of the first check that fails
send_feedback_message(fb, acc, feedback_id, text) ==
    LET feedback == get_feedback(fb, feedback_id)
        account == get_marketplace_account_by_marketplace_id(acc,
                                                             feedback.marketplace_id)
    IN IF feedback.id = 0 THEN "feedback_not_found"
       ELSE IF text = "" THEN "text_required"
       ELSE IF account.id = 0 THEN "account_not_found"
       ELSE IF account.is_active # 1 THEN "account_deactivated"
       ELSE IF account.marketplace_type # "wb" THEN "wb_only"
       ELSE "checked"

\* update_ai_response(conn, feedback_id, ...): the UPDATE runs and the function
\* returns None, whether or not a row has the id
CallUpdateAiResponse ==
    /\ fn_in = NoRequest
    /\ \E feedback_id \in FeedbackIdArgs :
         /\ feedbacks' = update_ai_response(feedbacks, feedback_id, GeneratedAnswer,
                                            OpenAiModel, DefaultPrompt, now)
         /\ fn_in' = [request |-> "update_ai_response", id |-> feedback_id,
                      text |-> GeneratedAnswer,
                      was |-> StatusOf(feedbacks, feedback_id)]
         /\ fn_out' = [category |-> "returned", message |-> NULL, called |-> FALSE]
    /\ UNCHANGED <<accounts, prompt_setting, envVars, pollVars, adminVars, histVars>>

\* save_feedback: update_draft_response, flash "success"
RequestSave ==
    /\ fn_in = NoRequest
    /\ \E feedback_id \in FeedbackIdArgs :
         /\ feedbacks' = update_draft_response(feedbacks, feedback_id, OperatorText)
         /\ fn_in' = [request |-> "save_feedback", id |-> feedback_id,
                      text |-> OperatorText,
                      was |-> StatusOf(feedbacks, feedback_id)]
         /\ fn_out' = [category |-> "success", message |-> "draft_saved",
                       called |-> FALSE]
    /\ UNCHANGED <<accounts, prompt_setting, envVars, pollVars, adminVars, histVars>>

\* send_feedback: the checks, send_response (sent: it returns), the two
\* store statements, the flash
RequestSend ==
    /\ fn_in = NoRequest
    /\ \E feedback_id \in FeedbackIdArgs, text \in {"", OperatorText},
          sent \in BOOLEAN :
         /\ fn_in' = [request |-> "send_feedback", id |-> feedback_id, text |-> text,
                      was |-> StatusOf(feedbacks, feedback_id)]
         /\ IF ~send_feedback_allowed(feedbacks, accounts, feedback_id, text)
            THEN /\ fn_out' = [category |-> "error",
                               message |-> send_feedback_message(feedbacks, accounts,
                                                                 feedback_id, text),
                               called |-> FALSE]
                 /\ UNCHANGED feedbacks
            ELSE IF ~sent
            THEN /\ fn_out' = [category |-> "error", message |-> "send_error",
                               called |-> TRUE]
                 /\ UNCHANGED feedbacks
            ELSE /\ fn_out' = [category |-> "success", message |-> "sent",
                               called |-> TRUE]
                 /\ feedbacks' = mark_sent(update_draft_response(feedbacks,
                                                                 feedback_id, text),
                                           feedback_id, text, SendAck, now)
    /\ UNCHANGED <<accounts, prompt_setting, envVars, pollVars, adminVars, histVars>>

\* delete_account: deactivate_marketplace_account, flash "success"
RequestDelete ==
    /\ fn_in = NoRequest
    /\ \E account_id \in AccountIdArgs :
         /\ accounts' = deactivate_marketplace_account(accounts, account_id)
         /\ fn_in' = [request |-> "delete_account", id |-> account_id, text |-> NULL,
                      was |-> NULL]
         /\ fn_out' = [category |-> "success", message |-> "account_deleted",
                       called |-> FALSE]
    /\ UNCHANGED <<feedbacks, prompt_setting, envVars, pollVars, adminVars, histVars>>

\* toggle_auto_reply: set_marketplace_account_auto_reply, flash "success"
RequestToggle ==
    /\ fn_in = NoRequest
    /\ \E account_id \in AccountIdArgs, enabled \in BOOLEAN :
         /\ accounts' = set_marketplace_account_auto_reply(accounts, account_id,
                                                           enabled)
         /\ fn_in' = [request |-> "toggle_auto_reply", id |-> account_id,
                      text |-> NULL, was |-> NULL]
         /\ fn_out' = [category |-> "success", message |-> "auto_reply_updated",
                       called |-> FALSE]
    /\ UNCHANGED <<feedbacks, prompt_setting, envVars, pollVars, adminVars, histVars>>

Request ==
    \/ CallUpdateAiResponse
    \/ RequestSave
    \/ RequestSend
    \/ RequestDelete
    \/ RequestToggle

\* The rows a store can hold: a row inserted at time 1, brought to a status
\* by the statement that sets it.
RowData(marketplace_id) ==
    upsert_data(marketplace_id,
                FeedbackItem("e1", 1, IntRating(5), "good", "p1", "", "prodA", 101,
                             "rawA"))

Statuses ==
    {"new", "ai_generated", "manual_needed", "ai_skipped_no_key", "ai_error", "sent"}

WithStatus(fb, feedback_id, status) ==
    IF status = "new" THEN fb
    ELSE IF status = "ai_generated"
    THEN update_ai_response(fb, feedback_id, GeneratedAnswer, OpenAiModel,
                            DefaultPrompt, 1)
    ELSE IF status = "sent"
    THEN mark_sent(update_ai_response(fb, feedback_id, GeneratedAnswer, OpenAiModel,
                                      DefaultPrompt, 1),
                   feedback_id, GeneratedAnswer, SendAck, 1)
    ELSE mark_skipped(fb, feedback_id, status)

\* no row; a row of the WB account; a row of each account
StoredTables ==
    {<<>>}
    \cup { WithStatus(insert_or_touch_feedback(<<>>, RowData(1), 1), 1, s) :
             s \in Statuses }
    \cup { WithStatus(insert_or_touch_feedback(
                          WithStatus(insert_or_touch_feedback(<<>>, RowData(1), 1),
                                     1, s),
                          RowData(2), 1), 2, t) : s \in Statuses, t \in Statuses }

\* the two accounts, the WB account active or deactivated
StoredAccounts ==
    { InitialAccounts, deactivate_marketplace_account(InitialAccounts, 1) }

Admin ==
    \/ SaveFeedback
    \/ SendFeedbackStart
    \/ SendFeedbackCall
    \/ SendFeedbackCallError
    \/ SendFeedbackDraft
    \/ SendFeedbackMark
    \/ DeleteAccount
    \/ ToggleAutoReply

----------------------------------------------------------------------------
(* the accounts table: bootstrap at process start, creation and deletion in
   the admin panel *)

MaxAccounts == 2      \* the table holds at most MaxAccounts accounts
MaxTokens == 2        \* WB_ACCOUNTS configures at most MaxTokens tokens

\* settings.wb_accounts, by account key: _parse_wb_accounts gives a tuple of
\* any keys, repeated keys included; WB_API_TOKEN alone gives <<"default">>
WbAccountConfigs == SeqsUpTo({"default", "a"}, MaxTokens)

MARKETPLACE_LABELS == {"wb", "ozon", "ym"}

\* main, line 282, at a start of the process
SeedWbAccounts ==
    /\ \E wb_accounts \in WbAccountConfigs :
         /\ Len(_seed_wb_accounts(accounts, wb_accounts)) <= MaxAccounts
         /\ accounts' = _seed_wb_accounts(accounts, wb_accounts)
         /\ fn_in' = [request |-> "_seed_wb_accounts", wb_accounts |-> wb_accounts,
                      was |-> accounts]
    /\ UNCHANGED <<feedbacks, prompt_setting, envVars, pollVars, adminVars, histVars,
                   fn_out>>

\* create_account: the form is checked (a name of 0 is the empty name), then
\* create_marketplace_account runs; raised: the INSERT raises
CreateAccount ==
    /\ Len(accounts) < MaxAccounts
    /\ \E marketplace_type \in MARKETPLACE_LABELS \cup {"other"},
          account_name \in 0..1, api_token \in {"", "token"}, raised \in BOOLEAN :
         /\ fn_in' = [request |-> "create_account", type |-> marketplace_type]
         /\ IF marketplace_type \notin MARKETPLACE_LABELS
            THEN /\ fn_out' = [category |-> "error", message |-> "bad_type",
                               called |-> FALSE]
                 /\ UNCHANGED accounts
            ELSE IF account_name = 0 \/ api_token = ""
            THEN /\ fn_out' = [category |-> "error", message |-> "name_and_token",
                               called |-> FALSE]
                 /\ UNCHANGED accounts
            ELSE IF raised
            THEN /\ fn_out' = [category |-> "error", message |-> "create_failed",
                               called |-> TRUE]
                 /\ UNCHANGED accounts
            ELSE /\ fn_out' = [category |-> "success", message |-> "account_added",
                               called |-> TRUE]
                 /\ accounts' = create_marketplace_account(accounts,
                                                           marketplace_type,
                                                           account_name, 0)
    /\ UNCHANGED <<feedbacks, prompt_setting, envVars, pollVars, adminVars, histVars>>

----------------------------------------------------------------------------
(* build_prompt of app/ai.py on one template and one payload.  A template is
   a sequence of segments, literal text or a replacement field {key}; a
   payload maps some keys to a text or to None (NULL). *)

MaxSegments == 2      \* a template has at most MaxSegments segments

Literal(text) == [k |-> "lit", v |-> text]
Field(key) == [k |-> "field", v |-> key]

PayloadKeys == {"text", "rating"}
TemplateSegments ==
    {Literal("Reply to: ")} \cup { Field(key) : key \in PayloadKeys \cup {"shop"} }
Templates == SeqsUpTo(TemplateSegments, MaxSegments)
Payloads == UNION { [K -> {NULL, "good"}] : K \in SUBSET PayloadKeys }

\* line 39: None becomes the empty string
safe(data) == [key \in DOMAIN data |-> IF data[key] = NULL THEN "" ELSE data[key]]

\* line 40, template.format(**safe): a field whose key is no keyword
\* argument raises KeyError
format(template, kwargs) ==
    IF \E n \in 1..Len(template) :
          template[n].k = "field" /\ template[n].v \notin DOMAIN kwargs
    THEN [raised |-> "KeyError", text |-> <<>>]
    ELSE [raised |-> NULL,
          text |-> [n \in 1..Len(template) |->
                       IF template[n].k = "field" THEN kwargs[template[n].v]
                       ELSE template[n].v]]

\* lines 41-44: the block of examples, when there is one, follows the prompt
format_prompt(template, data, examples) ==
    LET prompt == format(template, safe(data))
    IN IF prompt.raised # NULL THEN prompt
       ELSE IF examples = <<>> THEN prompt
       ELSE [prompt EXCEPT !.text = @ \o <<"\n\n", "examples_block">>]

NoPrompt == [raised |-> NULL, text |-> <<>>, done |-> FALSE]

BuildPrompt ==
    /\ ~fn_out.done
    /\ LET r == format_prompt(fn_in.template, fn_in.data, fn_in.examples)
       IN fn_out' = [raised |-> r.raised, text |-> r.text, done |-> TRUE]
    /\ UNCHANGED <<storeVars, envVars, pollVars, adminVars, histVars, fn_in>>

----------------------------------------------------------------------------
(* _format_product_benefits on one product row.  JSON values are records by
   kind: null, a string, a number, a list of scalars.  A rendered text is the
   sequence of its pieces, the empty text is <<>>. *)

MaxPairs == 2         \* a product has at most MaxPairs characteristics

JsonNull == [k |-> "null"]
JsonStr(s) == [k |-> "str", s |-> s]
JsonNum(n) == [k |-> "num", n |-> n]
JsonList(l) == [k |-> "list", l |-> l]

\* Python truth of a value: None, "", 0 and [] are false
Truthy(x) ==
    IF x.k = "null" THEN FALSE
    ELSE IF x.k = "str" THEN x.s # ""
    ELSE IF x.k = "num" THEN x.n # 0
    ELSE x.l # <<>>

\* str(x).strip() of a scalar; " " stands for a text of white space only
StrStrip(x) ==
    IF x.k = "null" THEN <<"None">>
    ELSE IF x.k = "num" THEN <<ToString(x.n)>>
    ELSE IF x.s \in {"", " "} THEN <<>>
    ELSE <<x.s>>

\* ", ".join(str(part) for part in value if part is not None)
RECURSIVE JoinParts(_)
JoinParts(parts) ==
    IF parts = <<>> THEN <<>>
    ELSE IF Head(parts).k = "null" THEN JoinParts(Tail(parts))
    ELSE LET rest == JoinParts(Tail(parts))
             first == IF Head(parts).k = "num" THEN <<ToString(Head(parts).n)>>
                      ELSE <<Head(parts).s>>
         IN IF rest = <<>> THEN first ELSE first \o <<", ">> \o rest

\* lines 262-266: the texts `name` and `value` of one item
BenefitName(item) == IF Truthy(item.name) THEN StrStrip(item.name) ELSE <<>>
BenefitValue(item) ==
    IF item.value.k = "list"
    THEN JoinParts(item.value.l)
    ELSE IF Truthy(item.value) THEN StrStrip(item.value) ELSE <<>>

\* lines 267-274: the line of one item, <<>> when the item gives no line
BenefitLine(item) ==
    LET name == BenefitName(item)
        value == BenefitValue(item)
    IN IF name = <<>> /\ value = <<>> THEN <<>>
       ELSE IF name # <<>> /\ value # <<>> THEN name \o <<": ">> \o value
       ELSE IF name # <<>> THEN name
       ELSE value

RECURSIVE BenefitLines(_)
BenefitLines(pairs) ==
    IF pairs = <<>> THEN <<>>
    ELSE IF BenefitLine(Head(pairs)) = <<>> THEN BenefitLines(Tail(pairs))
    ELSE <<BenefitLine(Head(pairs))>> \o BenefitLines(Tail(pairs))

\* _format_product_benefits(product_row): the lines that "\n".join joins; no
\* line is the empty string.  product: "none" or "row"; characteristics:
\* "null", "empty", "invalid" (json.loads raises) or "json" with its items
_format_product_benefits(product_row) ==
    IF product_row.product = "none" THEN <<>>
    ELSE IF product_row.characteristics \in {"null", "empty"} THEN <<>>
    ELSE IF product_row.characteristics = "invalid" THEN <<>>
    ELSE BenefitLines(product_row.items)

ItemNames == {JsonNull, JsonStr(""), JsonStr(" "), JsonStr("Color")}
ItemValues ==
    {JsonNull, JsonStr(""), JsonStr("5kg"), JsonNum(0), JsonNum(5),
     JsonList(<<>>), JsonList(<<JsonStr("Red"), JsonStr("Blue")>>),
     JsonList(<<JsonNull, JsonNum(0)>>)}
CharacteristicItems == [name : ItemNames, value : ItemValues]
ProductRows ==
    {[product |-> "none", characteristics |-> "null", items |-> <<>>]}
    \cup [product : {"row"}, characteristics : {"null", "empty", "invalid"},
          items : {<<>>}]
    \cup [product : {"row"}, characteristics : {"json"},
          items : SeqsUpTo(CharacteristicItems, MaxPairs)]

NoLines == [lines |-> <<>>, done |-> FALSE]

FormatProductBenefits ==
    /\ ~fn_out.done
    /\ fn_out' = [lines |-> _format_product_benefits(fn_in), done |-> TRUE]
    /\ UNCHANGED <<storeVars, envVars, pollVars, adminVars, histVars, fn_in>>

----------------------------------------------------------------------------
(* the pure functions of process_ai, applied to one input *)

MaxRating == 7

RatingValues ==
    {NoRating, TextRating, InfRating} \cup { IntRating(n) : n \in (0 - 2)..MaxRating }

AutoReplyRawValues ==
    {PyAbsent, PyNone, PyText, PyInt(0), PyInt(1), PyInt(2), PyFloat(5), PyFloat(15)}

\* mode = _reply_mode(row["rating"]); the downgrade with the account's flag
NoInput == [rating |-> NoRating, raw |-> PyAbsent]
NoResult == [mode |-> NULL, enabled |-> FALSE, effective |-> NULL]

Decide ==
    /\ fn_out = NoResult
    /\ fn_out' = [mode |-> _reply_mode(fn_in.rating),
                  enabled |-> resolve_auto_reply(fn_in.raw),
                  effective |-> effective_mode(fn_in.rating,
                                               resolve_auto_reply(fn_in.raw))]
    /\ UNCHANGED <<storeVars, envVars, pollVars, adminVars, histVars, fn_in>>

----------------------------------------------------------------------------
(* get_rag_examples applied to one table and one query *)

MaxExamples == 3

\* the (product_name, rating, feedback_created_at) an example can hold
ExampleContents ==
    { <<"X", IntRating(5), 1>>, <<"X", IntRating(3), 2>>, <<"Y", IntRating(5), 3>>,
      <<"Y", IntRating(3), 1>>, <<"X", NoRating, 3>>, <<NULL, IntRating(5), 0>> }

\* the tables of up to MaxExamples rows, id = order of insertion
ExampleTables ==
    { [i \in 1..Len(c) |-> RagExample(i, c[i][1], c[i][2], c[i][3])] :
        c \in SeqsUpTo(ExampleContents, MaxExamples) }

\* limit: the default of get_rag_examples, and a smaller one
LimitValues == {2, 6}

NoQuery == [examples |-> <<>>, product_name |-> NULL, rating |-> NoRating,
            limit |-> 0]
NoRows == [rows |-> <<>>, done |-> FALSE]

Rank ==
    /\ ~fn_out.done
    /\ fn_out' = [rows |-> get_rag_examples(fn_in.examples, fn_in.product_name,
                                            fn_in.rating, fn_in.limit),
                  done |-> TRUE]
    /\ UNCHANGED <<storeVars, envVars, pollVars, adminVars, histVars, fn_in>>

----------------------------------------------------------------------------
(* the specifications *)

\* the state after init_db and _seed_wb_accounts, before the first statement
\* of the process that runs
\* the processes before their first statement, whatever the tables hold
IdleProcess(keys, t, at) ==
    /\ prompt_setting = NULL
    /\ openai_api_key \in keys
    /\ now = t
    /\ pc = at
    /\ impl = "main"
    /\ todo = <<>>
    /\ acct = NoAccount
    /\ items = <<>>
    /\ rows = <<>>
    /\ mode = NULL
    /\ answer = NULL
    /\ sent_payload = NULL
    /\ apc = "idle"
    /\ afb = NoFeedback
    /\ atext = NULL
    /\ listed = {}
    /\ polled = {}
    /\ failed = {}
    /\ fetch_failed = {}
    /\ touched = {}
    /\ ingest = <<>>
    /\ trail = <<>>
    /\ unprocessed = {}

Idle(keys, t, wb_items, at) ==
    /\ market = [m \in {1, 2} |-> IF m = 1 THEN wb_items ELSE YmItems]
    /\ IdleProcess(keys, t, at)

Start(keys, t, wb_items, at) ==
    /\ feedbacks = <<>>
    /\ accounts = InitialAccounts
    /\ Idle(keys, t, wb_items, at)

\* python -m main: the polling loop alone
Init ==
    /\ Start({NULL, "", "sk-key"}, 1, WbItems, "list")
    /\ fn_in = NoInput
    /\ fn_out = NoResult

Next == Poller

Spec == Init /\ [][Next]_vars

\* python -m main, stopped and started again at any point
InitRestart ==
    /\ Start({"sk-key"}, 1, WbItems, "list")
    /\ fn_in = NoInput
    /\ fn_out = NoResult

NextRestart == Pass \/ Restart

SpecRestart == InitRestart /\ [][NextRestart]_vars

\* an empty database: starts of the process and the accounts tab of the panel
InitSeed ==
    /\ feedbacks = <<>>
    /\ accounts = <<>>
    /\ Idle({"sk-key"}, 1, WbItems, "list")
    /\ fn_in = NoRequest
    /\ fn_out = NoResponse

NextSeed == SeedWbAccounts \/ CreateAccount \/ DeleteAccount

SpecSeed == InitSeed /\ [][NextSeed]_vars

\* one pass of the polling loop on the accounts the panel creates; the
\* marketplace of every account has one item to return
InitPlatforms ==
    /\ feedbacks = <<>>
    /\ accounts = <<>>
    /\ market = [m \in 1..MaxAccounts |-> AdminWbItems]
    /\ IdleProcess({"sk-key"}, 1, "list")
    /\ fn_in = NoRequest
    /\ fn_out = NoResponse

NextPlatforms == Pass \/ CreateAccount

SpecPlatforms == InitPlatforms /\ [][NextPlatforms]_vars

\* python -m main running for ever on a store that works (no statement of
\* db.py raises): the process takes its next step whenever it has one, and
\* for each account the fetch succeeds again and again
InitLive ==
    /\ Start({"sk-key"}, MaxNow, WbItems, "list")
    /\ fn_in = NoInput
    /\ fn_out = NoResult

NextLive ==
    \/ ListAccounts
    \/ DetectBusinessId
    \/ DetectBusinessIdError
    \/ Fetch
    \/ FetchError
    \/ Upsert
    \/ SaveRaw
    \/ SaveRawError
    \/ ProcessStart
    \/ Classify
    \/ Generate
    \/ GenerateError
    \/ Send
    \/ SendError
    \/ MarkSent
    \/ SleepOn

Fairness ==
    /\ WF_vars(NextLive)
    /\ \A a \in AccountIds(InitialAccounts) : SF_vars(Fetch /\ acct.id = a)

SpecLive == InitLive /\ [][NextLive]_vars /\ Fairness

\* build_prompt on one input
InitPrompt ==
    /\ Start({"sk-key"}, 1, WbItems, "sleep")
    /\ fn_in \in [template : Templates, data : Payloads,
                  examples : {<<>>, <<"example">>}]
    /\ fn_out = NoPrompt

NextPrompt == BuildPrompt

SpecPrompt == InitPrompt /\ [][NextPrompt]_vars

\* _format_product_benefits on one input
InitBenefits ==
    /\ Start({"sk-key"}, 1, WbItems, "sleep")
    /\ fn_in \in ProductRows
    /\ fn_out = NoLines

NextBenefits == FormatProductBenefits

SpecBenefits == InitBenefits /\ [][NextBenefits]_vars

\* one pass of the polling loop over items that need no reply, with and
\* without an API key
InitSkip ==
    /\ Start({NULL, "", "sk-key"}, 1, SkipWbItems, "list")
    /\ fn_in = NoInput
    /\ fn_out = NoResult

NextSkip == Pass

SpecSkip == InitSkip /\ [][NextSkip]_vars

\* ensure_prompt called again and again on one database, by runs whose
\* configured prompt_template may differ from the one stored
MaxCalls == 3

\* the values settings.prompt_template takes (PROMPT_TEMPLATE, or the default
\* of config.py)
PromptDefaults == {"default_template", "", "t1", "t2", "t3", "t4"}

NoCall == [existing |-> NULL, default_prompt |-> NULL]
NoTemplate == [template |-> NULL, written |-> FALSE, calls |-> 0, writes |-> 0]

\* process_ai, line 91: prompt_template = ensure_prompt(conn,
\* settings.prompt_template)
EnsurePrompt ==
    /\ fn_out.calls < MaxCalls
    /\ \E d \in PromptDefaults :
         LET r == ensure_prompt(prompt_setting, d)
         IN /\ prompt_setting' = r.setting
            /\ fn_in' = [existing |-> prompt_setting, default_prompt |-> d]
            /\ fn_out' = [template |-> r.template, written |-> r.written,
                          calls |-> fn_out.calls + 1,
                          writes |-> fn_out.writes + (IF r.written THEN 1 ELSE 0)]
    /\ UNCHANGED <<feedbacks, accounts, envVars, pollVars, adminVars, histVars>>

InitEnsure ==
    /\ Start({NULL}, 1, WbItems, "sleep")
    /\ fn_in = NoCall
    /\ fn_out = NoTemplate

NextEnsure == EnsurePrompt

SpecEnsure == InitEnsure /\ [][NextEnsure]_vars

\* one pass of the polling loop with the admin panel beside it
InitAdmin ==
    /\ Start({"sk-key"}, 1, AdminWbItems, "list")
    /\ fn_in = NoInput
    /\ fn_out = NoResult

NextAdmin == Pass \/ Admin

SpecAdmin == InitAdmin /\ [][NextAdmin]_vars

\* one pass of the polling loop, with or without an API key, and the admin
\* panel beside it
InitOperator ==
    /\ Start({NULL, "sk-key"}, 1, AdminWbItems, "list")
    /\ fn_in = NoInput
    /\ fn_out = NoResult

NextOperator == Pass \/ Admin

SpecOperator == InitOperator /\ [][NextOperator]_vars

\* calls of sync_wb_account
InitSync ==
    /\ Start({NULL, "", "sk-key"}, 1, WbItems, "sleep")
    /\ fn_in = NoInput
    /\ fn_out = NoResult

NextSync == SyncStart \/ Cycle

SpecSync == InitSync /\ [][NextSync]_vars

\* one admin request or store call on a store at time 2, the poller idle
InitRequest ==
    /\ feedbacks \in StoredTables
    /\ accounts \in StoredAccounts
    /\ Idle({"sk-key"}, 2, WbItems, "sleep")
    /\ fn_in = NoRequest
    /\ fn_out = NoResponse

NextRequest == Request

SpecRequest == InitRequest /\ [][NextRequest]_vars

\* one application of the pure functions
InitPure ==
    /\ Start({NULL}, 1, WbItems, "sleep")
    /\ fn_in \in [rating : RatingValues, raw : AutoReplyRawValues]
    /\ fn_out = NoResult

NextPure == Decide

SpecPure == InitPure /\ [][NextPure]_vars

----------------------------------------------------------------------------
(* properties *)

Ids == 1..Len(feedbacks)

\* the content-bearing fields of a stored row / of the data of a call
RowContent(row) ==
    <<row.created_at, row.rating, row.text, row.pros, row.cons, row.product_name,
      row.product_nm_id, row.raw_json>>

DataContent(data) ==
    <<data.created_at, data.rating, data.text, data.pros, data.cons,
      data.product_name, data.product_nm_id, json_dumps(data.raw_json)>>

\* C1: after any sequence of insert_or_touch_feedback calls, over any number
\* of passes and accounts, the store holds at most one row per
\* (marketplace_id, external_id).
C1_OneRowPerKey ==
    \A i, j \in Ids :
        (/\ feedbacks[i].marketplace_id = feedbacks[j].marketplace_id
         /\ feedbacks[i].external_id = feedbacks[j].external_id) => i = j

\* every key of both marketplaces is stored and one of them was ingested again
\* with other data
C1_Witness ==
    /\ Len(feedbacks) = 3
    /\ \E i \in Ids : ingest[i].last # ingest[i].first

\* C2, state part: the content-bearing fields of a row are those of the first
\* call for its key, last_seen_at is the time of the latest call.
C2_FirstContentLastSeen ==
    /\ Len(ingest) = Len(feedbacks)
    /\ \A i \in Ids :
         /\ RowContent(feedbacks[i]) = DataContent(ingest[i].first)
         /\ feedbacks[i].last_seen_at = ingest[i].at

\* C2, step part: a call for a stored key changes last_seen_at of that row
\* and nothing else in the table.
C2_TouchStep ==
    (pc = "upsert" /\ Len(feedbacks') = Len(feedbacks)) =>
        \/ feedbacks' = feedbacks
        \/ \E i \in Ids : feedbacks' = [feedbacks EXCEPT ![i].last_seen_at = now]

\* C2: when insert_or_touch_feedback is called twice for the same key with
\* different field values, the content-bearing fields equal the first call's
\* values, last_seen_at equals the time of the second call, and nothing but
\* last_seen_at is changed by the second call.
C2_SecondCallOnlyTouches == [](C2_FirstContentLastSeen) /\ [][C2_TouchStep]_vars

\* a row inserted in the first pass was ingested in the second pass with
\* another rating and text
C2_Witness ==
    \E i \in Ids :
        /\ ingest[i].last.rating # ingest[i].first.rating
        /\ ingest[i].last.text # ingest[i].first.text
        /\ ingest[i].at = 2
        /\ feedbacks[i].ai_created_at = 1
        /\ feedbacks[i].rating = ingest[i].first.rating

C3_Step ==
    /\ \A i \in Ids : feedbacks[i].status # "new" => feedbacks'[i].status # "new"
    /\ pc = "upsert" => \A i \in Ids : feedbacks'[i].status = feedbacks[i].status
    /\ (pc = "process" /\ pc' = "item") =>
          \A k \in 1..Len(rows') : feedbacks[rows'[k].id].status = "new"
    /\ (pc = "item" /\ trail' # trail) => trail[Head(rows).id].mode = NULL

\* C3: once the status of a row has left new, no step returns it to new, a
\* re-ingestion does not alter its status, get_new_feedbacks does not return
\* the row and process_ai handles no row a second time.
C3_ResolvedStaysResolved == [][C3_Step]_vars

\* a row drafted in the first pass was ingested again in the second pass,
\* which is over
C3_Witness ==
    /\ now = 2
    /\ pc = "sleep"
    /\ \E i \in Ids :
         /\ feedbacks[i].status \in {"ai_generated", "sent"}
         /\ feedbacks[i].ai_created_at = 1
         /\ feedbacks[i].last_seen_at = 2

\* C4: sent is terminal; once the status of a row is sent, no step of the
\* polling pass or of an admin request changes it.
C4_SentIsTerminal ==
    [][\A i \in Ids : feedbacks[i].status = "sent" => feedbacks'[i].status = "sent"]_vars

\* the mapping the reply policy is to compute (an infinite rating is numeric
\* and not below 4)
ReplyPolicy(rating) ==
    IF rating.k = "none" THEN "skip"
    ELSE IF rating.k = "text" THEN "skip"
    ELSE IF rating.k = "inf" THEN "auto_send"
    ELSE IF rating.v < 1 THEN "skip"
    ELSE IF rating.v <= 3 THEN "manual_confirm"
    ELSE "auto_send"

\* C5: _reply_mode maps None, a non-numeric rating and a rating below 1 to
\* skip, 1..3 to manual_confirm, 4 and more to auto_send; it never raises and
\* returns no other value.
C5_ReplyPolicy ==
    fn_out # NoResult => fn_out.mode = ReplyPolicy(fn_in.rating)

\* C6: a row with rating >= 4 that process_ai classifies for an account whose
\* auto-reply is off, with an API key configured, gets the mode
\* manual_confirm; the generation is run for it, send_response is not called,
\* and when the generation returns the row is ai_generated with the generated
\* text (unless an admin request wrote the row); only an admin request can
\* make it sent.
C6_DisabledDraftsWithoutSend ==
    \A i \in Ids :
        (/\ trail[i].mode \in {"manual_confirm", "auto_send"}
         /\ ~trail[i].auto
         /\ feedbacks[i].rating.k = "int"
         /\ feedbacks[i].rating.v >= 4) =>
            /\ trail[i].mode = "manual_confirm"
            /\ trail[i].send = "none"
            /\ trail[i].gen = "none" => (pc = "gen" /\ Head(rows).id = i)
            /\ (trail[i].gen = "ok" /\ i \notin touched) =>
                  /\ feedbacks[i].status = "ai_generated"
                  /\ feedbacks[i].ai_response = GeneratedAnswer
            /\ feedbacks[i].status = "sent" => i \in touched

\* the pass is over; a five-star row of an account with auto-reply off was
\* drafted and not sent
C6_Witness ==
    /\ pc = "sleep"
    /\ \E i \in Ids :
         /\ ~trail[i].auto
         /\ trail[i].mode = "manual_confirm"
         /\ trail[i].gen = "ok"
         /\ feedbacks[i].rating = IntRating(5)
         /\ feedbacks[i].status = "ai_generated"
         /\ i \notin touched

\* C7: a generation failure of one row never aborts the account's cycle; the
\* row ends in ai_error and the loop handles every row of the batch.
C7_GenerationFailureIsolated ==
    /\ \A i \in Ids : trail[i].gen = "failed" => feedbacks[i].status = "ai_error"
    /\ pc \notin {"item", "gen", "send", "mark_sent"} => unprocessed = {}

\* C8: after send_response failed for a row, the row is ai_generated with the
\* generated text and is not sent; no row is sent twice by process_ai; and the
\* loop handles every row of the batch.
C8_SendFailureKeepsDraft ==
    /\ \A i \in Ids :
         /\ trail[i].send = "failed" =>
               /\ feedbacks[i].status = "ai_generated"
               /\ feedbacks[i].ai_response = GeneratedAnswer
               /\ feedbacks[i].sent_response = NULL
               /\ feedbacks[i].sent_at = 0
         /\ trail[i].send # "again"
    /\ pc \notin {"item", "gen", "send", "mark_sent"} => unprocessed = {}

\* in the first pass the send failed for one row, and a row that came after
\* it in the same batch has been drafted
C8_Witness ==
    /\ now = 1
    /\ pc = "sleep"
    /\ \E i, j \in Ids :
         /\ trail[i].send = "failed"
         /\ feedbacks[j].marketplace_id = feedbacks[i].marketplace_id
         /\ feedbacks[j].created_at > feedbacks[i].created_at
         /\ trail[j].gen = "ok"
         /\ feedbacks[j].status = "ai_generated"

ActiveIds ==
    { accounts[i].id : i \in { j \in 1..Len(accounts) :
          /\ accounts[j].is_active = 1
          /\ accounts[j].marketplace_type \in {"wb", "ym"} } }

\* C9: a pass lists every active account; whatever the cycles of a pass raise,
\* the cycle of every listed account has been started when the pass sleeps.
C9_AccountIsolation ==
    /\ pc \notin {"list", "dead"} => listed = ActiveIds
    /\ polled \subseteq listed
    /\ pc \in {"detect", "fetch", "upsert", "save_raw", "process", "item", "gen",
               "send", "mark_sent"} => acct.id \in polled
    /\ pc = "sleep" => polled = listed

\* the cycle of account 1 raised in the first pass, account 2 was polled in
\* that pass, and the second pass polls account 1 again
C9_Witness ==
    /\ now = 2
    /\ pc = "fetch"
    /\ acct.id = 1
    /\ 1 \in failed
    /\ \E i \in Ids : feedbacks[i].marketplace_id = 2 /\ feedbacks[i].last_seen_at = 1

\* C10: no error raised during a pass, the listing of the accounts included,
\* terminates the polling loop.
C10_LoopNeverTerminates == pc # "dead"

HoldingStatuses == {"ai_generated", "ai_error", "manual_needed", "ai_skipped_no_key"}

C11_Step ==
    /\ \A i \in Ids :
         (/\ feedbacks[i].status \in HoldingStatuses
          /\ ~(pc \in {"send", "mark_sent"} /\ Head(rows).id = i)) =>
             feedbacks'[i] =
                 [feedbacks[i] EXCEPT !.last_seen_at = feedbacks'[i].last_seen_at]
    /\ pc = "send" =>
          /\ trail[Head(rows).id].send = "none"
          /\ feedbacks[Head(rows).id].ai_created_at = now
    /\ (pc = "process" /\ pc' = "item") =>
          \A k \in 1..Len(rows') : feedbacks[rows'[k].id].status = "new"

\* C11: each row is dispatched at most once over all passes; send_response is
\* called for a row only in the pass that read it in status new and drafted
\* it, and a row left in ai_generated, ai_error, manual_needed or
\* ai_skipped_no_key is not sent or drafted again by a later pass (a later
\* pass changes only its last_seen_at).
C11_AtMostOneDispatch == [][C11_Step]_vars

\* the send of a row failed in the first pass; the second pass saw the item
\* again and is over, the row still holds the draft of the first pass
C11_Witness ==
    /\ now = 2
    /\ pc = "sleep"
    /\ \E i \in Ids :
         /\ trail[i].send = "failed"
         /\ feedbacks[i].status = "ai_generated"
         /\ feedbacks[i].ai_created_at = 1
         /\ feedbacks[i].last_seen_at = 2

\* get_rag_examples on one table
InitRag ==
    /\ Start({NULL}, 1, WbItems, "sleep")
    /\ fn_in \in [examples : ExampleTables, product_name : {"X", ""},
                  rating : {IntRating(5), NoRating}, limit : LimitValues]
    /\ fn_out = NoRows

NextRag == Rank

SpecRag == InitRag /\ [][NextRag]_vars

\* an example matches the query's product name / rating: equal values, an
\* absent value matches nothing
ProductMatch(e) == e.product_name # NULL /\ e.product_name = fn_in.product_name
RatingMatch(e) == e.rating # NoRating /\ e.rating = fn_in.rating

Flag(b) == IF b THEN 1 ELSE 0

\* the example of the specification: E1(X,5,t=10), E2(X,3,t=20), E3(Y,5,t=30)
TieBreakExample ==
    <<RagExample(1, "X", IntRating(5), 1), RagExample(2, "X", IntRating(3), 2),
      RagExample(3, "Y", IntRating(5), 3)>>

\* C12: the rows get_rag_examples returns are rows of the table, at most
\* `limit` of them, ordered by (product-name match, rating match,
\* feedback_created_at, id), each descending: a product match precedes a
\* non-match whatever the rating match and recency, among equal product match
\* a rating match precedes a non-match whatever the recency; the example
\* table queried with (X, 5) gives [E1, E2, E3].
C12_RankOrder ==
    fn_out.done =>
        LET r == fn_out.rows
        IN /\ Len(r) = IF Len(fn_in.examples) < fn_in.limit
                       THEN Len(fn_in.examples) ELSE fn_in.limit
           /\ \A a \in 1..Len(r) : r[a] = fn_in.examples[r[a].id]
           /\ \A a, b \in 1..Len(r) : a < b =>
                LET pa == Flag(ProductMatch(r[a]))
                    pb == Flag(ProductMatch(r[b]))
                    ra == Flag(RatingMatch(r[a]))
                    rb == Flag(RatingMatch(r[b]))
                IN /\ pa >= pb
                   /\ pa = pb => ra >= rb
                   /\ (pa = pb /\ ra = rb) =>
                         r[a].feedback_created_at >= r[b].feedback_created_at
                   /\ (/\ pa = pb
                       /\ ra = rb
                       /\ r[a].feedback_created_at = r[b].feedback_created_at) =>
                         r[a].id > r[b].id
           /\ (/\ fn_in.examples = TieBreakExample
               /\ fn_in.product_name = "X"
               /\ fn_in.rating = IntRating(5)
               /\ fn_in.limit = 6) => r = TieBreakExample

\* the example table was ranked for (X, 5): the oldest row comes first
C12_Witness ==
    /\ fn_out.done
    /\ fn_in.examples = TieBreakExample
    /\ fn_in.product_name = "X"
    /\ fn_in.rating = IntRating(5)
    /\ fn_out.rows = TieBreakExample

\* C13: with no API key configured (None or empty), every row process_ai
\* handles whose rating gives manual_confirm or auto_send is set to
\* ai_skipped_no_key; generate_response and send_response are never reached
\* and the row gets no draft and no sent fields.
C13_NoKeySkips ==
    openai_api_key \in {NULL, ""} =>
        /\ pc \notin {"gen", "send", "mark_sent"}
        /\ \A i \in Ids :
             (/\ trail[i].mode # NULL
              /\ feedbacks[i].rating.k = "int"
              /\ feedbacks[i].rating.v >= 1) =>
                 /\ trail[i].mode = "no_key"
                 /\ trail[i].gen = "none"
                 /\ trail[i].send = "none"
                 /\ feedbacks[i].status = "ai_skipped_no_key"
                 /\ feedbacks[i].ai_response = NULL
                 /\ feedbacks[i].ai_created_at = 0
                 /\ feedbacks[i].sent_response = NULL
                 /\ feedbacks[i].sent_at = 0

\* without a key a pass has handled a five-star and a two-star row
C13_Witness ==
    /\ openai_api_key = NULL
    /\ pc = "sleep"
    /\ \E i, j \in Ids :
         /\ feedbacks[i].rating = IntRating(5)
         /\ feedbacks[j].rating = IntRating(2)
         /\ feedbacks[i].status = "ai_skipped_no_key"
         /\ feedbacks[j].status = "ai_skipped_no_key"

CycleStates ==
    {"detect", "fetch", "upsert", "save_raw", "process", "item", "gen", "send",
     "mark_sent"}

\* C14, state part: once the fetch of an account failed in a pass, the cycle
\* of that account is over and none of its rows carries a last_seen_at, draft
\* or sent time of this pass; the cycles of all listed accounts are started
\* before the pass sleeps.
C14_FailedAccountUntouched ==
    /\ pc \in CycleStates => acct.id \notin fetch_failed
    /\ \A i \in Ids, a \in 1..Len(accounts) :
         (/\ accounts[a].id \in fetch_failed
          /\ feedbacks[i].marketplace_id = accounts[a].marketplace_id) =>
             /\ feedbacks[i].last_seen_at < now
             /\ feedbacks[i].ai_created_at < now
             /\ feedbacks[i].sent_at < now
    /\ pc = "sleep" => polled = listed

\* C14, step part: the step in which the fetch fails changes no feedback row
\* and moves on to the next listed account, or to the sleep.
C14_FetchErrorStep ==
    (pc = "fetch" /\ fetch_failed' # fetch_failed) =>
        /\ feedbacks' = feedbacks
        /\ trail' = trail
        /\ IF todo = <<>>
           THEN pc' = "sleep"
           ELSE /\ acct' = Head(todo)
                /\ pc' = StartPc(Head(todo))
                /\ Head(todo).id \in polled'

\* C14: a transport error during an account's fetch is a failure of that
\* account for that pass only: none of its rows is inserted, touched, drafted,
\* sent or changed in status in that pass, and the other accounts of the pass
\* are processed.
C14_FetchFailureIsWholeAccount ==
    [](C14_FailedAccountUntouched) /\ [][C14_FetchErrorStep]_vars

\* the second pass is over: the fetch of account 1 failed in it, its row of
\* the first pass is as it was, and account 2 was ingested in the second pass
C14_Witness ==
    /\ now = 2
    /\ pc = "sleep"
    /\ 1 \in fetch_failed
    /\ \E i, j \in Ids :
         /\ feedbacks[i].marketplace_id = 1
         /\ feedbacks[i].last_seen_at = 1
         /\ feedbacks[i].status # "new"
         /\ feedbacks[j].marketplace_id = 2
         /\ feedbacks[j].last_seen_at = 2

C15_Step ==
    (/\ fn_in = NoRequest
     /\ fn_in'.request = "update_ai_response"
     /\ fn_in'.id \notin Ids) =>
        /\ fn_out'.category = "NotFound"
        /\ feedbacks' = feedbacks

\* C15: update_ai_response called with an id no row has fails with NotFound
\* and leaves the store unchanged.
C15_RecordDraftNotFound == [][C15_Step]_vars

C16_Step ==
    (/\ fn_in = NoRequest
     /\ \/ /\ fn_in'.request \in {"save_feedback", "send_feedback"}
           /\ fn_in'.id \notin Ids
        \/ /\ fn_in'.request \in {"toggle_auto_reply", "delete_account"}
           /\ fn_in'.id \notin AccountIds(accounts)) =>
        /\ fn_out'.category = "error"
        /\ feedbacks' = feedbacks
        /\ accounts' = accounts

\* C16: an admin request (save draft, manual send, toggle auto-reply,
\* deactivate account) that addresses an id which does not exist reports an
\* error, never success, and leaves the store unchanged.
C16_NotFoundSurfaced == [][C16_Step]_vars

\* the checks of a manual send, on the store as it is when the request runs
SendIsValid(feedback_id, text) ==
    /\ feedback_id \in Ids
    /\ text # ""
    /\ \E a \in 1..Len(accounts) :
         /\ accounts[a].marketplace_id = feedbacks[feedback_id].marketplace_id
         /\ accounts[a].is_active = 1
         /\ accounts[a].marketplace_type = "wb"

C17_Step ==
    (fn_in = NoRequest /\ fn_in'.request = "send_feedback") =>
        /\ fn_out'.called => SendIsValid(fn_in'.id, fn_in'.text)
        /\ ~SendIsValid(fn_in'.id, fn_in'.text) =>
              /\ ~fn_out'.called
              /\ fn_out'.category = "error"
              /\ feedbacks' = feedbacks

\* C17: send_feedback calls send_response only when, on the store of that
\* moment, the feedback exists, the text is non-empty and the owning account
\* exists, is active and is a WB account; otherwise nothing is dispatched and
\* no feedback field changes.
C17_ManualSendValidated == [][C17_Step]_vars

\* a manual send of a drafted row was refused because its account is
\* deactivated
C17_Witness ==
    /\ fn_in.request = "send_feedback"
    /\ fn_in.text = OperatorText
    /\ fn_out.message = "account_deactivated"
    /\ ~fn_out.called
    /\ feedbacks[fn_in.id].status = "ai_generated"
    /\ feedbacks[fn_in.id].sent_at = 0

C18_Step ==
    (fn_in = NoRequest /\ fn_in'.request = "send_feedback" /\ fn_out'.called) =>
        /\ (fn_out'.category = "success" /\ feedbacks[fn_in'.id].status # "sent") =>
              /\ Len(feedbacks') = Len(feedbacks)
              /\ feedbacks'[fn_in'.id].status = "sent"
              /\ feedbacks'[fn_in'.id].sent_response = fn_in'.text
              /\ feedbacks'[fn_in'.id].sent_at = now
              /\ \A j \in Ids : j # fn_in'.id => feedbacks'[j] = feedbacks[j]
        /\ fn_out'.category = "error" => feedbacks' = feedbacks

\* C18: a successful manual send of a row in a non-sent status makes it sent
\* with sent_response the operator's text and sent_at the time of the send;
\* a manual send whose send_response fails leaves every row as it was.
C18_ManualSendFromAnyStatus == [][C18_Step]_vars

\* a row that was ai_error has been sent by the operator
C18_Witness ==
    /\ fn_in.request = "send_feedback"
    /\ fn_in.was = "ai_error"
    /\ fn_out.category = "success"
    /\ feedbacks[fn_in.id].status = "sent"
    /\ feedbacks[fn_in.id].sent_response = OperatorText
    /\ feedbacks[fn_in.id].sent_at = 2

\* C19: once a manual send of a row has run its mark_sent and the auto-send
\* of the same row is over too (its send_response was called and process_ai
\* has left the row), in whatever order their statements and adapter calls
\* interleaved, the row is sent and its sent_response, sent_raw and sent_at
\* are those of the mark_sent that ran last.
C19_LastWriterWins ==
    \A i \in Ids :
        (/\ trail[i].admin_marked
         /\ trail[i].send # "none"
         /\ ~(pc \in {"send", "mark_sent"} /\ Head(rows).id = i)) =>
            /\ feedbacks[i].status = "sent"
            /\ feedbacks[i].sent_raw = json_dumps(SendAck)
            /\ feedbacks[i].sent_at = now
            /\ trail[i].last_mark = "auto" =>
                  feedbacks[i].sent_response = GeneratedAnswer
            /\ trail[i].last_mark = "admin" =>
                  feedbacks[i].sent_response = OperatorText

\* the rows of the polled account's marketplace that the store holds in new
NewIds == { i \in Ids : /\ feedbacks[i].status = "new"
                        /\ feedbacks[i].marketplace_id = acct.marketplace_id }

\* the process starts from the store alone, and a pass takes the rows that
\* are new when it reads them, all of them and no other
C20_Step ==
    /\ pc' = "list" =>
          /\ <<todo', acct', items', rows'>> = <<<<>>, NoAccount, <<>>, <<>>>>
          /\ <<mode', answer', sent_payload'>> = <<NULL, NULL, NULL>>
          /\ storeVars' = storeVars
    /\ (pc = "process" /\ pc' # "list") =>
          /\ pc' = "item" => RowIds(rows') = NewIds
          /\ pc' # "item" => NewIds = {}

\* a row is in process only while the store has it in new (until its draft is
\* committed), it reaches send_response with no earlier dispatch, and no row
\* was dispatched twice
C20_Once ==
    /\ pc \in {"item", "gen"} => feedbacks[Head(rows).id].status = "new"
    /\ pc = "send" => trail[Head(rows).id].send = "none"
    /\ \A i \in Ids : trail[i].send # "again"

\* C20: the polling process may be stopped anywhere (between passes, accounts
\* or items, or inside an item) and started again; the pass after the restart
\* works from the store alone, processes exactly the rows then in status new,
\* and never calls send_response for a row that was dispatched before.
C20_RestartSafe == [](C20_Once) /\ [][C20_Step]_vars

\* the process was stopped between send_response and mark_sent: the row is
\* dispatched and holds its draft; the pass after the restart polled the
\* row's account to the end and did not send the row again
C20_Witness ==
    /\ pc = "sleep"
    /\ \E i \in Ids :
         /\ trail[i].send = "ok"
         /\ feedbacks[i].status = "ai_generated"
         /\ \E a \in 1..Len(accounts) :
              /\ accounts[a].marketplace_id = feedbacks[i].marketplace_id
              /\ accounts[a].id \in polled \ failed

\* the business_id the store holds for the account of the running cycle
StoredBusinessId ==
    LET a == CHOOSE i \in 1..Len(accounts) : accounts[i].id = acct.id
    IN accounts[a].business_id

C21_Step ==
    /\ pc = "detect" =>
          /\ acct.marketplace_type = "ym"
          /\ StoredBusinessId = 0
          /\ pc' = "fetch" =>
                /\ StoredBusinessId' = DetectedBusinessId
                /\ acct'.business_id = DetectedBusinessId
                /\ acct'.id = acct.id
          /\ pc' # "fetch" =>
                /\ storeVars' = storeVars
                /\ acct.id \in failed'
                /\ acct.id \notin polled' \ polled
    /\ \A i \in 1..Len(accounts) :
          accounts[i].business_id # 0 => accounts'[i].business_id = accounts[i].business_id

\* a cycle that fetches for a platform with a business id uses the stored id
C21_UsesStored ==
    (pc = "fetch" /\ acct.marketplace_type = "ym") =>
        /\ acct.business_id # 0
        /\ acct.business_id = StoredBusinessId

\* C21: detect_business_id is called only for an account whose stored
\* business_id is empty; when it returns, the id is persisted on the account
\* and never changes afterwards, so every later cycle fetches with the stored
\* id and without discovery; when it raises, nothing is written and the
\* account's cycle of that pass ends as failed.
C21_DiscoveryOnce == [](C21_UsesStored) /\ [][C21_Step]_vars

\* second pass: the cycle of the YM account fetches with the id persisted by
\* the first pass, whose cycle did not raise
C21_Witness ==
    /\ now = 2
    /\ pc = "fetch"
    /\ acct.marketplace_type = "ym"
    /\ acct.business_id = DetectedBusinessId
    /\ acct.id \notin failed

WbAccounts(acc) == list_marketplace_accounts(acc, "wb", FALSE)

\* what one run of _seed_wb_accounts does to the table it finds
C22_SeedEffect ==
    \A wb_accounts \in WbAccountConfigs :
        LET seeded == _seed_wb_accounts(accounts, wb_accounts)
            n == Len(accounts)
        IN /\ SubSeq(seeded, 1, n) = accounts
           /\ (WbAccounts(accounts) # <<>> \/ wb_accounts = <<>>) => seeded = accounts
           /\ (WbAccounts(accounts) = <<>>) =>
                 /\ Len(seeded) = n + Len(wb_accounts)
                 /\ \A k \in 1..Len(wb_accounts) :
                      /\ seeded[n + k].marketplace_type = "wb"
                      /\ seeded[n + k].is_active = 1
                      /\ seeded[n + k].account_name = SeedAccountName(wb_accounts[k])
           /\ \A again \in WbAccountConfigs :
                 WbAccounts(seeded) # <<>> => _seed_wb_accounts(seeded, again) = seeded

\* a start of the process on a table with an account of the platform
C22_Step ==
    (fn_in' # fn_in /\ fn_in'.request = "_seed_wb_accounts"
        /\ WbAccounts(accounts) # <<>>) => accounts' = accounts

\* C22: _seed_wb_accounts creates one active account per configured token
\* when the table has no WB account, active or deactivated, and otherwise
\* changes nothing; run again on its own result, with any configuration, it
\* creates nothing, and a deactivated account is neither reactivated nor
\* created a second time.
C22_BootstrapIdempotent == [](C22_SeedEffect) /\ [][C22_Step]_vars

\* the process started with tokens configured on a table whose WB accounts
\* are all deactivated, and the table is as it was
C22_Witness ==
    /\ fn_in.request = "_seed_wb_accounts"
    /\ fn_in.wb_accounts # <<>>
    /\ fn_in.was = accounts
    /\ WbAccounts(accounts) # <<>>
    /\ \A i \in 1..Len(accounts) :
         accounts[i].marketplace_type = "wb" => accounts[i].is_active = 0

\* the accounts of the platforms main polls that the store holds as active
ActiveAccountIds ==
    { accounts[i].id : i \in { j \in 1..Len(accounts) :
          /\ accounts[j].is_active = 1
          /\ accounts[j].marketplace_type \in {"wb", "ym"} } }

C23_Step ==
    /\ Len(accounts') >= Len(accounts)
    /\ Len(feedbacks') >= Len(feedbacks)
    /\ \A i \in 1..Len(accounts) :
          /\ accounts'[i].id = accounts[i].id
          /\ accounts'[i].marketplace_id = accounts[i].marketplace_id
          /\ (accounts[i].is_active = 1 /\ accounts'[i].is_active = 0) =>
                /\ accounts' = [accounts EXCEPT ![i].is_active = 0]
                /\ feedbacks' = feedbacks
    /\ \A i \in Ids :
          /\ feedbacks'[i].id = feedbacks[i].id
          /\ feedbacks'[i].marketplace_id = feedbacks[i].marketplace_id
          /\ feedbacks'[i].external_id = feedbacks[i].external_id
    /\ (pc = "list" /\ pc' \notin {"list", "dead"}) => listed' = ActiveAccountIds

\* a cycle runs only for an account the pass listed
C23_PolledWereListed ==
    /\ polled \subseteq listed
    /\ pc \in CycleStates => acct.id \in polled

\* C23: delete_account clears is_active of the one account and writes
\* nothing else: the account row stays, the feedback rows are unchanged; no
\* step of the poller or of the panel removes an account row or a feedback
\* row; a pass polls only the accounts that were active when it listed them.
C23_SoftDelete == [](C23_PolledWereListed) /\ [][C23_Step]_vars

\* the pass is over: one account was deactivated before the listing and was
\* not polled, the other was deactivated after its cycle and keeps its rows
C23_Witness ==
    /\ pc = "sleep"
    /\ \E a, b \in 1..Len(accounts) :
         /\ accounts[a].is_active = 0
         /\ accounts[a].id \notin listed
         /\ accounts[b].is_active = 0
         /\ accounts[b].id \in polled
         /\ \E i \in Ids : feedbacks[i].marketplace_id = accounts[b].marketplace_id

ItemStates == {"item", "gen", "send", "mark_sent"}

\* while a row is in process, every row still waiting in the loop is not
\* older than it, is still new and has had nothing done to it
C24_OldestFirst ==
    pc \in ItemStates =>
        \A k \in 2..Len(rows) :
            /\ Head(rows).created_at <= rows[k].created_at
            /\ feedbacks[rows[k].id].status = "new"
            /\ trail[rows[k].id] = NoTrail

\* process_ai writes and sends for the row in process only
C24_Step ==
    pc \in ItemStates =>
        /\ \A i \in Ids : i # Head(rows).id => feedbacks'[i] = feedbacks[i]
        /\ \A i \in Ids : i # Head(rows).id => trail'[i] = trail[i]
        /\ pc' \in ItemStates =>
              \/ rows' = rows
              \/ rows' = Tail(rows)

\* C24: process_ai handles the new rows of the account one after the other
\* in ascending created_at: all writes and the send of a row are done before
\* anything is written or sent for a row with a later created_at.
C24_CreationOrder == [](C24_OldestFirst) /\ [][C24_Step]_vars

\* two rows were read; the older one is sent, the younger one is in process
C24_Witness ==
    /\ pc = "gen"
    /\ \E j \in Ids :
         /\ feedbacks[j].marketplace_id = Head(rows).marketplace_id
         /\ feedbacks[j].created_at < Head(rows).created_at
         /\ feedbacks[j].status = "sent"
         /\ feedbacks[j].sent_at = now
         /\ feedbacks[j].last_seen_at = now

\* the accounts the store holds as active, of any platform
AllActiveIds ==
    { accounts[i].id : i \in { j \in 1..Len(accounts) : accounts[j].is_active = 1 } }

C25_Step ==
    (pc = "list" /\ pc' \notin {"list", "dead"}) => listed' = AllActiveIds

C25_ListedArePolled ==
    /\ polled \subseteq listed
    /\ pc = "sleep" => polled = listed

\* C25: a pass lists every account that is active, of every platform the
\* panel creates accounts for (wb, ozon, ym), and runs one cycle for each
\* listed account before it sleeps.
C25_EveryPlatformPolled == [](C25_ListedArePolled) /\ [][C25_Step]_vars

\* the ids the rows of the model can take
RowIdRange == 1..(Cardinality(WbItems) + Cardinality(YmItems))

\* C26: with passes scheduled for ever, the account active and its fetch
\* succeeding again and again, every row in status new eventually has
\* another status, whichever cycle left it new.
C26_NewIsProcessed ==
    \A i \in RowIdRange :
        (i \in Ids /\ feedbacks[i].status = "new")
            ~> (i \in Ids /\ feedbacks[i].status # "new")

\* what the claim expects of one segment
C27_Rendered(segment, data) ==
    IF segment.k = "lit" THEN segment.v
    ELSE IF segment.v \in DOMAIN data /\ data[segment.v] # NULL THEN data[segment.v]
    ELSE ""

\* C27: build_prompt returns for every template and payload; each named
\* placeholder is replaced by the payload's value for its key, and by the
\* empty string when the payload has no such key.
C27_MissingKeyRendersEmpty ==
    fn_out.done =>
        /\ fn_out.raised = NULL
        /\ \A n \in 1..Len(fn_in.template) :
              fn_out.text[n] = C27_Rendered(fn_in.template[n], fn_in.data)

\* the text of a name or of a scalar value that is present: a string that
\* is not blank, or a number
C28_Text(x) ==
    IF x.k = "num" THEN <<ToString(x.n)>>
    ELSE IF x.k = "str" /\ x.s \notin {"", " "} THEN <<x.s>>
    ELSE <<>>

RECURSIVE C28_Joined(_)
C28_Joined(parts) ==
    IF parts = <<>> THEN <<>>
    ELSE LET rest == C28_Joined(Tail(parts))
             first == C28_Text(Head(parts))
         IN IF first = <<>> THEN rest
            ELSE IF rest = <<>> THEN first
            ELSE first \o <<", ">> \o rest

C28_Value(x) == IF x.k = "list" THEN C28_Joined(x.l) ELSE C28_Text(x)

C28_Line(item) ==
    LET name == C28_Text(item.name)
        value == C28_Value(item.value)
    IN IF name # <<>> /\ value # <<>> THEN name \o <<": ">> \o value
       ELSE IF name # <<>> THEN name
       ELSE value

RECURSIVE C28_Lines(_)
C28_Lines(pairs) ==
    IF pairs = <<>> THEN <<>>
    ELSE IF C28_Line(Head(pairs)) = <<>> THEN C28_Lines(Tail(pairs))
    ELSE <<C28_Line(Head(pairs))>> \o C28_Lines(Tail(pairs))

\* C28: _format_product_benefits gives one line per pair in input order:
\* "name: value" when name and value are both present, the one that is
\* present when only one is, no line when neither is; the parts of a list
\* value are joined with ", "; no product or no characteristics gives the
\* empty text.
C28_BenefitLines ==
    fn_out.done =>
        fn_out.lines = IF fn_in.product = "row" /\ fn_in.characteristics = "json"
                       THEN C28_Lines(fn_in.items)
                       ELSE <<>>

\* the edges of the state machine the orchestrator may take
StatusEdges ==
    { <<"new", s>> : s \in {"ai_generated", "manual_needed", "ai_skipped_no_key",
                            "ai_error"} }
    \cup { <<"ai_generated", "sent">> }

\* the row in process was new when process_ai took it up, and is the row the
\* draft was just recorded for when send_response is reached
C29_InProcess ==
    /\ pc \in {"item", "gen"} => feedbacks[Head(rows).id].status = "new"
    /\ pc \in {"send", "mark_sent"} =>
          /\ feedbacks[Head(rows).id].status = "ai_generated"
          /\ trail[Head(rows).id].gen = "ok"
    /\ \A i \in Ids : trail[i].gen = "ok" => feedbacks[i].status # "ai_error"

C29_Step ==
    /\ \A i \in Ids :
          feedbacks'[i].status # feedbacks[i].status =>
              /\ <<feedbacks[i].status, feedbacks'[i].status>> \in StatusEdges
              /\ pc \in ItemStates
              /\ i = Head(rows).id
    /\ \A i \in (1..Len(feedbacks')) \ Ids : feedbacks'[i].status = "new"

\* C29: with the orchestrator as only writer, a row enters as new and its
\* status changes only along new -> ai_generated, new -> manual_needed,
\* new -> ai_skipped_no_key, new -> ai_error and ai_generated -> sent, each
\* change made by process_ai on the row it is handling; that row was new when
\* its handling began, and a row whose draft is recorded is never set to
\* ai_error.
C29_StatusEdges == [](C29_InProcess) /\ [][C29_Step]_vars

\* a pass is over with a sent row, a row needing a manual reply and a row
\* whose generation failed
C29_Witness ==
    /\ pc = "sleep"
    /\ \E i, j, k \in Ids :
         /\ feedbacks[i].status = "sent"
         /\ feedbacks[j].status = "manual_needed"
         /\ feedbacks[k].status = "ai_error" /\ trail[k].gen = "failed"

\* the ids of the rows of an account's marketplace
RowsOf(a) ==
    { i \in Ids : \E n \in 1..Len(accounts) :
          /\ accounts[n].id = a
          /\ accounts[n].marketplace_id = feedbacks[i].marketplace_id }

\* process_ai returns: no row of the account's marketplace is new
C30_Step ==
    (pc \in {"process"} \cup ItemStates /\ pc' \notin {"process"} \cup ItemStates) =>
        \A i \in Ids :
            feedbacks[i].marketplace_id = acct.marketplace_id =>
                feedbacks'[i].status # "new"

\* at the end of a pass, the accounts whose cycle ran to its end have no new
\* row; while process_ai runs, the rows still new are the ones it has read
\* and not yet handled
C30_NoNewLeft ==
    /\ pc = "sleep" =>
          \A a \in polled \ (failed \cup fetch_failed) :
              \A i \in RowsOf(a) : feedbacks[i].status # "new"
    /\ pc \in ItemStates =>
          \A i \in Ids :
              (/\ feedbacks[i].marketplace_id = acct.marketplace_id
               /\ feedbacks[i].status = "new") => i \in unprocessed

\* C30: when the cycle of an account runs to its end (the fetch returned,
\* with items or without, and process_ai returned), every row of the account
\* that was new when process_ai started, returned by this fetch or not, has
\* another status.
C30_CycleClearsNew == [](C30_NoNewLeft) /\ [][C30_Step]_vars

\* a row left new by the first pass was not returned by the fetch of the
\* second pass and was drafted by it
C30_Witness ==
    /\ now = 2
    /\ pc = "sleep"
    /\ \E i \in Ids :
         /\ feedbacks[i].last_seen_at = 1
         /\ feedbacks[i].ai_created_at = 2
         /\ feedbacks[i].status \in {"ai_generated", "sent"}

\* a rating that is absent, not a number or below 1
SkipRating(rating) ==
    \/ rating.k \in {"none", "text"}
    \/ rating.k = "int" /\ rating.v < 1

\* C31: a row whose rating is absent, non-numeric or below 1 is set to
\* manual_needed by process_ai and nothing else is done for it, with or
\* without an API key: it never becomes ai_skipped_no_key, it is never
\* handed to the generator or to send_response, and it holds no draft.
C31_SkipIsManualNeeded ==
    /\ pc \in {"gen", "send", "mark_sent"} => ~SkipRating(Head(rows).rating)
    /\ \A i \in Ids :
         SkipRating(feedbacks[i].rating) =>
             /\ feedbacks[i].status \in {"new", "manual_needed"}
             /\ trail[i].mode \in {NULL, "skip"}
             /\ trail[i].mode = "skip" => feedbacks[i].status = "manual_needed"
             /\ trail[i].gen = "none"
             /\ trail[i].send = "none"
             /\ feedbacks[i].ai_response = NULL
             /\ feedbacks[i].sent_response = NULL

\* without an API key a pass has handled a row with a non-numeric rating and
\* a row with rating 0, and a five-star row of the same batch was skipped
\* for the missing key
C31_Witness ==
    /\ openai_api_key = NULL
    /\ pc = "sleep"
    /\ \E i, j \in Ids :
         /\ feedbacks[i].rating.k \in {"text", "none"}
         /\ feedbacks[i].marketplace_id = 1
         /\ feedbacks[i].status = "manual_needed"
         /\ feedbacks[j].rating = IntRating(0)
         /\ feedbacks[j].status = "manual_needed"

\* the row process_ai is about to send, or has sent and is about to mark
C32_Drafted ==
    pc \in {"send", "mark_sent"} =>
        /\ trail[Head(rows).id].gen = "ok"
        /\ feedbacks[Head(rows).id].status = "ai_generated"
        /\ feedbacks[Head(rows).id].ai_response = answer
        /\ answer # NULL

\* a send was only ever attempted for a row whose answer was generated, and
\* a row the polling loop marked sent holds the answer it drafted
C32_Order ==
    \A i \in Ids :
        /\ trail[i].send # "none" => trail[i].gen = "ok"
        /\ trail[i].auto_marked =>
               /\ trail[i].send = "ok"
               /\ feedbacks[i].status = "sent"
               /\ feedbacks[i].sent_response = feedbacks[i].ai_response

\* the step that marks the row sent writes the drafted answer as the sent one
C32_Step ==
    (pc = "mark_sent" /\ pc' # "mark_sent") =>
        /\ feedbacks'[Head(rows).id].status = "sent"
        /\ feedbacks'[Head(rows).id].ai_response = feedbacks[Head(rows).id].ai_response
        /\ feedbacks'[Head(rows).id].sent_response = feedbacks[Head(rows).id].ai_response

\* C32: for an auto_send row the polling loop generates, records the draft,
\* sends, and marks sent, in that order: when send_response is called the
\* row is ai_generated with ai_response equal to the text being sent, and a
\* row the loop marks sent has sent_response equal to its ai_response.
C32_GenerateDraftSendMark ==
    [](C32_Drafted /\ C32_Order) /\ [][C32_Step]_vars

\* a row was generated, sent and marked sent by the polling loop
C32_Witness ==
    \E i \in Ids :
        /\ trail[i].gen = "ok"
        /\ trail[i].send = "ok"
        /\ trail[i].auto_marked
        /\ feedbacks[i].status = "sent"
        /\ feedbacks[i].sent_response = GeneratedAnswer

\* no stored example matches the query's product name and none its rating
C33_NoMatch ==
    \A k \in 1..Len(fn_in.examples) :
        ~ProductMatch(fn_in.examples[k]) /\ ~RatingMatch(fn_in.examples[k])

\* example a is more recent than example b: later feedback_created_at, for
\* equal ones the later insertion
C33_MoreRecent(a, b) ==
    \/ a.feedback_created_at > b.feedback_created_at
    \/ a.feedback_created_at = b.feedback_created_at /\ a.id > b.id

\* C33: get_rag_examples returns exactly min(limit, number of stored
\* examples) rows; when no stored example matches the product name or the
\* rating (an absent rating matches nothing), the rows are the `limit` most
\* recent examples by feedback_created_at, most recent first, equal
\* feedback_created_at ordered by most recent insertion.
C33_MostRecent ==
    fn_out.done =>
        LET r == fn_out.rows
            n == Len(fn_in.examples)
            returned == { r[a].id : a \in 1..Len(r) }
        IN /\ Len(r) = IF n < fn_in.limit THEN n ELSE fn_in.limit
           /\ \A a \in 1..Len(r) : r[a] = fn_in.examples[r[a].id]
           /\ C33_NoMatch =>
                /\ \A a, b \in 1..Len(r) : a < b => C33_MoreRecent(r[a], r[b])
                /\ \A a \in 1..Len(r) : \A k \in (1..n) \ returned :
                       C33_MoreRecent(r[a], fn_in.examples[k])

\* three stored examples, none matching, were queried with limit 2 and
\* without a rating: of two examples with the same feedback_created_at only
\* the one inserted later was returned
C33_Witness ==
    /\ fn_out.done
    /\ C33_NoMatch
    /\ fn_in.rating = NoRating
    /\ fn_in.limit = 2
    /\ Len(fn_in.examples) = 3
    /\ Len(fn_out.rows) = 2
    /\ \E k \in 1..3 :
         /\ \A a \in 1..2 : fn_out.rows[a].id # k
         /\ fn_in.examples[k].feedback_created_at = fn_out.rows[2].feedback_created_at
         /\ k < fn_out.rows[2].id

\* the flag as the rule reads it: 1 enables, another integer disables, an
\* absent value or one that is not an integer enables
AutoReplyRule(raw) ==
    IF raw.k = "int" THEN raw.v = 1 ELSE TRUE

\* C34: the auto-reply flag of a cycle is resolved from the account row's
\* auto_reply_enabled as: 1 -> enabled, any other integer -> disabled, absent
\* or not an integer -> enabled.
C34_FlagResolution ==
    fn_out # NoResult => fn_out.enabled = AutoReplyRule(fn_in.raw)

\* after a call the stored setting and the returned template are the default
\* of that call, and the call wrote exactly when the stored value differed
C35_Ensured ==
    fn_out.calls > 0 =>
        /\ prompt_setting = fn_in.default_prompt
        /\ fn_out.template = fn_in.default_prompt
        /\ fn_out.written <=> (fn_in.existing # fn_in.default_prompt)
        /\ fn_out.writes <= fn_out.calls

\* a call with the default of the call before it changes nothing and writes
\* nothing
C35_Step ==
    (fn_out.calls > 0 /\ fn_out'.calls = fn_out.calls + 1
        /\ fn_in'.default_prompt = fn_in.default_prompt) =>
        /\ prompt_setting' = prompt_setting
        /\ fn_out'.template = fn_out.template
        /\ ~fn_out'.written
        /\ fn_out'.writes = fn_out.writes

\* C35: after ensure_prompt(default) the stored prompt_template equals the
\* default and so does the returned template; the setting is written only
\* when the stored value differs from the default or is absent; a second call
\* with the same default changes and writes nothing.
C35_EnsurePromptIdempotent ==
    [](C35_Ensured) /\ [][C35_Step]_vars

\* a stored template was replaced by a different default, and the call after
\* it, with the same default, wrote nothing: two writes in three calls
C35_Witness ==
    /\ fn_out.calls = 3
    /\ fn_out.writes = 2
    /\ ~fn_out.written
    /\ fn_in.existing = fn_in.default_prompt
    /\ prompt_setting = "t1"

\* the steps of process_ai: from its first statement to its return
C36_InProcess == pc \in {"process", "item", "gen", "send", "mark_sent"}

\* the rows process_ai holds are rows of the account of the cycle
C36_OwnRows ==
    pc \in {"item", "gen", "send", "mark_sent"} =>
        \A k \in 1..Len(rows) : rows[k].marketplace_id = acct.marketplace_id

\* a step of process_ai leaves the rows of every other marketplace as they are
C36_Step ==
    C36_InProcess =>
        /\ Len(feedbacks') = Len(feedbacks)
        /\ \A i \in Ids :
             feedbacks[i].marketplace_id # acct.marketplace_id =>
                 /\ feedbacks'[i] = feedbacks[i]
                 /\ trail'[i] = trail[i]

\* C36: process_ai of one account's cycle reads and writes only feedback
\* rows whose marketplace_id is that account's; no step of it changes a field
\* of a row of another account, also when both hold a row with the same
\* external_id.
C36_OtherAccountsUntouched ==
    [](C36_OwnRows) /\ [][C36_Step]_vars

\* both accounts hold a row with the same external_id: process_ai of the
\* second account has set its row to manual_needed while the first account's
\* row, left new by a failed cycle, is still new
C36_Witness ==
    \E i, j \in Ids :
        /\ feedbacks[i].external_id = feedbacks[j].external_id
        /\ feedbacks[i].marketplace_id = 1
        /\ feedbacks[j].marketplace_id = 2
        /\ feedbacks[i].status = "new"
        /\ trail[i].mode = NULL
        /\ trail[j].mode = "skip"
        /\ feedbacks[j].status = "manual_needed"

\* C37: in every reachable state a row with status sent has sent_response
\* and sent_at set; a row with status ai_generated has ai_response, ai_model,
\* ai_prompt and ai_created_at set; a row with status new, manual_needed or
\* ai_skipped_no_key that no operator action touched has neither ai_response
\* nor sent_response.
C37_StatusFields ==
    \A i \in Ids :
        /\ feedbacks[i].status = "sent" =>
               /\ feedbacks[i].sent_response # NULL
               /\ feedbacks[i].sent_at > 0
        /\ feedbacks[i].status = "ai_generated" =>
               /\ feedbacks[i].ai_response # NULL
               /\ feedbacks[i].ai_model # NULL
               /\ feedbacks[i].ai_created_at > 0
               /\ feedbacks[i].ai_prompt = build_prompt(DefaultPrompt, feedbacks[i])
        /\ (feedbacks[i].status \in {"new", "manual_needed", "ai_skipped_no_key"}
               /\ i \notin touched) =>
               /\ feedbacks[i].ai_response = NULL
               /\ feedbacks[i].sent_response = NULL

\* the store holds a row sent by the operator and a row the polling loop set
\* to manual_needed that no operator touched
C37_Witness ==
    \E i, j \in Ids :
        /\ feedbacks[i].status = "sent"
        /\ i \in touched
        /\ feedbacks[i].sent_at > 0
        /\ feedbacks[j].status = "manual_needed"
        /\ j \notin touched

\* C38: a manual send on a row whose status is already sent makes no second
\* dispatch to the marketplace: send_feedback on such a row does not call
\* send_response, so that each feedback item is dispatched at most once.
C38_NoSecondDispatch ==
    (fn_in.request = "send_feedback" /\ fn_in.was = "sent") => ~fn_out.called

\* what a step of sync_wb_account must do to be the step poll_wb takes from
\* the same state: when the generation of the current row fails (or its
\* rating cannot be converted) the row is marked ai_error, and in every case
\* process_ai goes on to the next row of the batch
C39_Step ==
    (impl = "sync" /\ pc \in {"item", "gen", "send", "mark_sent"}) =>
        LET id == Head(rows).id
        IN /\ (trail'[id].gen = "failed" /\ trail[id].gen # "failed") =>
                  feedbacks' = mark_skipped(feedbacks, id, "ai_error")
           /\ (trail'[id].mode = "raised" /\ trail[id].mode # "raised") =>
                  feedbacks' = mark_skipped(feedbacks, id, "ai_error")
           /\ Len(rows) > 1 => pc' \in {"item", "gen", "send", "mark_sent"}

\* C39: sync_wb_account (src/app/sync.py) and poll_wb (src/main.py) are
\* equivalent: from the same account row, fetch result, store, generator and
\* send outcomes, every step of sync_wb_account leaves the store as the
\* step of poll_wb does and is followed by the same generator and send
\* calls, also when a generation call fails for a row.
C39_SyncRefinesPoll ==
    [][C39_Step]_vars

\* the ids of the rows process_ai would take up for a marketplace
C40_Eligible(fb, mp) == { RowIds(r) : r \in get_new_feedbacks(fb, mp) }

\* the request that saves a draft
C40_Step ==
    fn_in'.request = "save_feedback" =>
        /\ Len(feedbacks') = Len(feedbacks)
        /\ \A i \in Ids :
             /\ feedbacks'[i] =
                    [feedbacks[i] EXCEPT !.draft_response = feedbacks'[i].draft_response]
             /\ feedbacks'[i].draft_response =
                    IF i = fn_in'.id THEN fn_in'.text ELSE feedbacks[i].draft_response
        /\ \A mp \in 1..MaxAccounts :
             C40_Eligible(feedbacks', mp) = C40_Eligible(feedbacks, mp)
        /\ accounts' = accounts
        /\ prompt_setting' = prompt_setting

\* C40: saving a draft (update_draft_response) changes only draft_response of
\* the addressed row; its status, ai_response, sent fields and last_seen_at
\* and every other row are unchanged, so the set of rows process_ai takes up
\* is the same before and after.
C40_DraftOnly == [][C40_Step]_vars

\* a draft was saved on a row that is new, in a table of several rows: the
\* row is still new
C40_Witness ==
    /\ fn_in.request = "save_feedback"
    /\ fn_in.id \in Ids
    /\ fn_in.was = "new"
    /\ feedbacks[fn_in.id].draft_response = OperatorText
    /\ feedbacks[fn_in.id].status = "new"
    /\ Len(feedbacks) > 1

====
